---- MODULE Spec2Model ----
(***************************************************************************)
(* ggconfig: the generator's pure algorithms and the run-time behaviour of *)
(* the code it generates (environment adapter, YAML adapter, mock,         *)
(* composite adapter, registry and GlobalConfig facade).                   *)
(*                                                                         *)
(* Go strings are sequences of one-character strings ("db" is <<"d","b">>).*)
(* Only ASCII letters, digits, '_', '+', '-' occur in the model.           *)
(* Go values of type int and float64 are numbers h * 2^63 + o (+ 1/2):     *)
(* the record fields h, o, half keep the platform's 64-bit range exact     *)
(* without leaving the integers TLC can compute with.                      *)
(***************************************************************************)
EXTENDS Integers, Sequences, FiniteSets, TLC

\* ------------------------------------------------------------------ bounds
\* longest alias list of one kind (env aliases of a method, section aliases,
\* key aliases of a method)
MaxAliases == 2
\* most environment variables that are set at once
MaxEnvSet == 2
\* most key/value entries of a document
MaxDocEntries == 2
\* most sources handed to the composite adapter's constructor
MaxSources == 3
\* most sources handed to NewGlobalConfig
MaxGlobalSources == 2

\* ----------------------------------------------------------------- strings
LowerChars == <<"a","b","c","d","e","f","g","h","i","j","k","l","m",
                "n","o","p","q","r","s","t","u","v","w","x","y","z">>
UpperChars == <<"A","B","C","D","E","F","G","H","I","J","K","L","M",
                "N","O","P","Q","R","S","T","U","V","W","X","Y","Z">>
DigitChars == <<"0","1","2","3","4","5","6","7","8","9">>

IndexIn(c, chars) ==
  IF \E i \in 1..Len(chars) : chars[i] = c
    THEN CHOOSE i \in 1..Len(chars) : chars[i] = c
    ELSE 0

\* char >= 'A' && char <= 'Z'
IsUpperChar(c) == IndexIn(c, UpperChars) # 0
\* char >= 'a' && char <= 'z'
IsLowerChar(c) == IndexIn(c, LowerChars) # 0
IsDigitChar(c) == IndexIn(c, DigitChars) # 0

ToUpperChar(c) == IF IsLowerChar(c) THEN UpperChars[IndexIn(c, LowerChars)] ELSE c
ToLowerChar(c) == IF IsUpperChar(c) THEN LowerChars[IndexIn(c, UpperChars)] ELSE c

\* strings.ToUpper / strings.ToLower on ASCII text
ToUpper(s) == [i \in 1..Len(s) |-> ToUpperChar(s[i])]
toLower(s) == [i \in 1..Len(s) |-> ToLowerChar(s[i])]

RECURSIVE Flatten(_)
Flatten(ss) == IF ss = <<>> THEN <<>> ELSE Head(ss) \o Flatten(Tail(ss))

\* toEnvKey with the underscore before an upper-case character that follows
\* a lower-case one (the first rule of the comment in the code)
toEnvKey_afterLower(methodName) ==
  LET piece(i) ==
        IF IsUpperChar(methodName[i]) /\ i > 1 /\ IsLowerChar(methodName[i - 1])
          THEN <<"_", methodName[i]>>
          ELSE <<methodName[i]>>
  IN  ToUpper(Flatten([i \in 1..Len(methodName) |-> piece(i)]))

\* toEnvKey with the underscore before every upper-case character but the
\* first, whatever follows it
toEnvKey_beforeEveryUpper(methodName) ==
  LET piece(i) ==
        IF IsUpperChar(methodName[i]) /\ i > 1
          THEN <<"_", methodName[i]>>
          ELSE <<methodName[i]>>
  IN  ToUpper(Flatten([i \in 1..Len(methodName) |-> piece(i)]))

\* toEnvKey: an underscore goes before every upper-case character that is
\* not the first one and is followed by a lower-case character; the whole
\* result is upper-cased.
toEnvKey(methodName) ==
  LET piece(i) ==
        LET char == methodName[i]
            nextChar == IF i + 1 <= Len(methodName) THEN methodName[i + 1] ELSE ""
        IN  IF IsUpperChar(char) /\ i > 1 /\ IsLowerChar(nextChar)
              THEN <<"_", char>>
              ELSE <<char>>
  IN  ToUpper(Flatten([i \in 1..Len(methodName) |-> piece(i)]))

\* getEnvKey: <PKG>_<SNAKE_METHOD>
getEnvKey(packageName, methodName) ==
  ToUpper(packageName) \o <<"_">> \o toEnvKey(methodName)

\* ----------------------------------------------------------------- numbers
\* a Go int or float64: h * 2^63 + o, plus one half when half is TRUE
Num(h, o) == [h |-> h, o |-> o, half |-> FALSE]
NumLess(x, y) ==
  \/ x.h < y.h
  \/ x.h = y.h /\ x.o < y.o
  \/ x.h = y.h /\ x.o = y.o /\ ~x.half /\ y.half

\* math.MaxInt and math.MinInt on a 64-bit platform
MaxInt == Num(1, -1)
MinInt == Num(-1, 0)

\* values of the generic document and of the typed results
StringValue(s) == [s |-> s, t |-> "string", n |-> Num(0, 0)]
IntValue(n) == [s |-> <<>>, t |-> "int", n |-> n]
Int64Value(n) == [s |-> <<>>, t |-> "int64", n |-> n]
Float64Value(n) == [s |-> <<>>, t |-> "float64", n |-> n]
OtherValue(kind) == [s |-> <<>>, t |-> kind, n |-> Num(0, 0)]

\* strconv.Atoi: optional sign, then one or more decimal digits.  The texts of
\* the model are short, so the 64-bit range error cannot occur.
RECURSIVE DigitsValue(_, _)
DigitsValue(s, acc) ==
  IF s = <<>> THEN acc
  ELSE DigitsValue(Tail(s), acc * 10 + (IndexIn(Head(s), DigitChars) - 1))

Atoi(s) ==
  LET signed == s # <<>> /\ Head(s) \in {"+", "-"}
      digits == IF signed THEN Tail(s) ELSE s
      valid  == digits # <<>> /\ \A i \in 1..Len(digits) : IsDigitChar(digits[i])
      mag    == IF valid THEN DigitsValue(digits, 0) ELSE 0
  IN  [err |-> ~valid,
       v   |-> IF valid /\ signed /\ Head(s) = "-" THEN 0 - mag ELSE mag]

\* ------------------------------------------------- the generated package
\* InterfaceInfo of the package the adapters are generated for:
\*   package db; type Config interface {
\*     Host(defaultValue string) (string, bool)
\*     Port(defaultValue int) (int, bool) }
UniquePackageName == <<"d","b">>
HostName == <<"H","o","s","t">>
PortName == <<"P","o","r","t">>
Methods ==
  << [Name |-> HostName, ParamType |-> "string", ReturnType |-> "string"],
     [Name |-> PortName, ParamType |-> "int", ReturnType |-> "int"] >>
MethodSet == {Methods[i] : i \in 1..Len(Methods)}

\* the defaults the callers of the model pass
DefaultsOf(m) ==
  IF m.ParamType = "int" THEN {IntValue(Num(0, 8080))}
  ELSE {StringValue(<<"l","h">>)}

SeqsUpTo(S, n) == UNION {[1..k -> S] : k \in 0..n}

VARIABLES
  aliases,    \* AliasSettings the generator was run with: Env, YAMLSection, YAMLKey
  environ,    \* the process environment: variable name -> value ("" when unset)
  mapKey,     \* the environment adapter's key-mapping function
  yaml,       \* the runtime.YAML object the YAML adapter holds
  yamlErr,    \* the err field of the YAML adapter: whether it holds an error
  GOARCH,     \* the platform the program was built for
  sources,    \* the composite adapter's source list, in constructor order
  ret,        \* what the last adapter call returned
  registry,   \* the registry map: package identifier -> Provider
  registryMu, \* the sync.RWMutex guarding registry
  returned,   \* history: the packages for which a Register call has returned
  threads,    \* the goroutines calling the registry and the facade
  disk,       \* the document file and how often it was read and parsed
  g,          \* the GlobalConfig a NewGlobalConfig call returned, with its error
  gen         \* the generator: its inputs, its position in main, what it produced

\* ------------------------------------------------------ environment adapter
\* template function envAliasKeys: aliases.Env[methodName], nil when absent
envAliasKeys(al, methodName) ==
  IF methodName \in DOMAIN al.Env THEN al.Env[methodName] ELSE <<>>

\* os.Getenv: the empty string when the variable is not set
Getenv(env, key) == IF key \in DOMAIN env THEN env[key] ELSE <<>>

\* the mapKey functions of the model: the identity (also what nil becomes in
\* the constructor) and a prefix injector
KeyPrefix == <<"A","_">>
MapKeys == {"identity", "prefix"}
ApplyMapKey(mk, k) == IF mk = "prefix" THEN KeyPrefix \o k ELSE k

\* New<Pkg><Iface>EnvConfigWithMap: a nil mapKey becomes the identity
NewEnvConfigWithMap(mk) == [mapKey |-> IF mk = "nil" THEN "identity" ELSE mk]

\* the code getEnvCheckSnippet emits for one alias key.  returns = TRUE: the
\* method returns (v, ok) here; returns = FALSE: control falls out of the if
\* statement to the next snippet.
getEnvCheckSnippet_ignoreErr(env, key, returnType) ==
  LET value == Getenv(env, key) IN
  IF value # <<>>
    THEN IF returnType = "int"
           THEN [v |-> IntValue(Num(0, Atoi(value).v)), returns |-> TRUE, ok |-> TRUE]
           ELSE [v |-> StringValue(value), returns |-> TRUE, ok |-> TRUE]
    ELSE [v |-> StringValue(<<>>), returns |-> FALSE, ok |-> FALSE]

getEnvCheckSnippet(env, key, returnType) ==
  LET value == Getenv(env, key) IN
  IF value # <<>>
    THEN IF returnType = "int"
           THEN IF ~Atoi(value).err
                  THEN [v |-> IntValue(Num(0, Atoi(value).v)), returns |-> TRUE,
                        ok |-> TRUE]
                  ELSE [v |-> StringValue(<<>>), returns |-> FALSE, ok |-> FALSE]
           ELSE [v |-> StringValue(value), returns |-> TRUE, ok |-> TRUE]
    ELSE [v |-> StringValue(<<>>), returns |-> FALSE, ok |-> FALSE]

\* the code getEnvValue emits for the canonical key: the same test, then
\* return defaultValue, false
getEnvValue(env, key, defaultValue, returnType) ==
  LET check == getEnvCheckSnippet(env, key, returnType) IN
  IF check.returns THEN check
  ELSE [v |-> defaultValue, returns |-> TRUE, ok |-> FALSE]

\* the candidate keys of a method in the order the template emits their
\* snippets: range envAliasKeys, then envKey
EnvCandidates_canonicalFirst(al, pkg, methodName) ==
  <<getEnvKey(pkg, methodName)>> \o envAliasKeys(al, methodName)

EnvCandidates(al, pkg, methodName) ==
  envAliasKeys(al, methodName) \o <<getEnvKey(pkg, methodName)>>

\* func (c *<pkg>EnvConfig) <Method>(defaultValue) : envCheck for every alias
\* key, envReturn for the canonical key, each key through c.mapKey.
\* hit is the position of the candidate key the value came from, 0 for none.
RECURSIVE EnvMethodFrom(_, _, _, _, _, _)
EnvMethodFrom(i, keys, env, c, m, defaultValue) ==
  IF i < Len(keys)
    THEN LET r == getEnvCheckSnippet(env, ApplyMapKey(c.mapKey, keys[i]), m.ReturnType)
         IN  IF r.returns THEN [v |-> r.v, ok |-> r.ok, hit |-> i]
             ELSE EnvMethodFrom(i + 1, keys, env, c, m, defaultValue)
    ELSE LET r == getEnvValue(env, ApplyMapKey(c.mapKey, keys[i]), defaultValue,
                              m.ReturnType)
         IN  [v |-> r.v, ok |-> r.ok, hit |-> IF r.ok THEN i ELSE 0]

EnvMethod(env, c, al, pkg, m, defaultValue) ==
  EnvMethodFrom(1, EnvCandidates(al, pkg, m.Name), env, c, m, defaultValue)

\* ------------------------------------------------------------ runtime.YAML
\* A YAML object: nil = TRUE is the zero value (root == nil); otherwise root
\* maps a section name to [isMap, kv]: kv is the section's map from key to
\* value when the section is a map[string]any.
ZeroYAML == [nil |-> TRUE, root |-> <<>>]
MapSection(kv) == [kv |-> kv, isMap |-> TRUE]
ScalarSection == [kv |-> <<>>, isMap |-> FALSE]

\* (y *YAML) ensure: the object after the call
ensure(y) == IF y.nil THEN [nil |-> FALSE, root |-> <<>>] ELSE y

\* ParseYAML: data.bad is text yaml.Unmarshal rejects; a nil root becomes the
\* empty map
ParseYAML(data) ==
  IF data.bad THEN [y |-> ZeroYAML, err |-> TRUE]
  ELSE [y |-> [nil |-> FALSE, root |-> data.root], err |-> FALSE]

\* sec, ok := y.root[section].(map[string]any)
SectionMap(y, section) ==
  IF section \in DOMAIN ensure(y).root /\ ensure(y).root[section].isMap
    THEN [ok |-> TRUE, kv |-> ensure(y).root[section].kv]
    ELSE [ok |-> FALSE, kv |-> <<>>]

\* GetString: the loop over keys from position i.  ki is the position of the
\* key the value came from.
RECURSIVE GetStringFrom(_, _, _)
GetStringFrom(i, kv, keys) ==
  IF i > Len(keys) THEN [v |-> StringValue(<<>>), ok |-> FALSE, ki |-> 0]
  ELSE IF keys[i] = <<>> THEN GetStringFrom(i + 1, kv, keys)
  ELSE IF keys[i] \in DOMAIN kv /\ kv[keys[i]].t = "string"
    THEN [v |-> kv[keys[i]], ok |-> TRUE, ki |-> i]
  ELSE GetStringFrom(i + 1, kv, keys)

GetString(y, section, keys) ==
  IF ~SectionMap(y, section).ok
    THEN [v |-> StringValue(<<>>), ok |-> FALSE, ki |-> 0]
    ELSE GetStringFrom(1, SectionMap(y, section).kv, keys)

\* float64(n) of an integer constant: round to the nearest float64.  Next to
\* 2^63 the float64 values are 1024 apart below it and 2048 apart above it.
ToFloat64(n) ==
  IF n.h = 1 /\ n.o < 0 /\ n.o > -1024
    THEN (IF n.o >= -512 THEN Num(1, 0) ELSE Num(1, -1024))
  ELSE IF n.h = -1 /\ n.o > 0 /\ n.o < 1024
    THEN (IF n.o <= 512 THEN Num(-1, 0) ELSE Num(-1, 1024))
  ELSE n

\* int(t) of a float64 without fractional part.  A value the type int cannot
\* represent converts to an implementation-dependent result: amd64 gives the
\* minimal int, arm64 saturates.
FloatToInt(t, goarch) ==
  IF NumLess(MaxInt, t)
    THEN (IF goarch = "amd64" THEN MinInt ELSE MaxInt)
  ELSE IF NumLess(t, MinInt) THEN MinInt
  ELSE t

\* the type switch of GetInt on one value.  returns = FALSE: no conversion,
\* the loop goes on with the next key.
GetIntSwitch_truncates(v, goarch) ==
  IF v.t = "int" THEN [n |-> v.n, returns |-> TRUE, ok |-> TRUE]
  ELSE IF v.t = "int64"
    THEN IF NumLess(MaxInt, v.n) \/ NumLess(v.n, MinInt)
           THEN [n |-> Num(0, 0), returns |-> TRUE, ok |-> FALSE]
           ELSE [n |-> v.n, returns |-> TRUE, ok |-> TRUE]
  ELSE IF v.t = "float64"
    THEN IF NumLess(ToFloat64(MaxInt), v.n) \/ NumLess(v.n, ToFloat64(MinInt))
           THEN [n |-> Num(0, 0), returns |-> TRUE, ok |-> FALSE]
         ELSE [n |-> FloatToInt([v.n EXCEPT !.half = FALSE], goarch), returns |-> TRUE,
               ok |-> TRUE]
  ELSE [n |-> Num(0, 0), returns |-> FALSE, ok |-> FALSE]

GetIntSwitch(v, goarch) ==
  IF v.t = "int" THEN [n |-> v.n, returns |-> TRUE, ok |-> TRUE]
  ELSE IF v.t = "int64"
    THEN IF NumLess(MaxInt, v.n) \/ NumLess(v.n, MinInt)
           THEN [n |-> Num(0, 0), returns |-> TRUE, ok |-> FALSE]
           ELSE [n |-> v.n, returns |-> TRUE, ok |-> TRUE]
  ELSE IF v.t = "float64"
    THEN IF v.n.half   \* math.Trunc(t) != t
           THEN [n |-> Num(0, 0), returns |-> TRUE, ok |-> FALSE]
         ELSE IF NumLess(ToFloat64(MaxInt), v.n) \/ NumLess(v.n, ToFloat64(MinInt))
           THEN [n |-> Num(0, 0), returns |-> TRUE, ok |-> FALSE]
         ELSE [n |-> FloatToInt(v.n, goarch), returns |-> TRUE, ok |-> TRUE]
  ELSE [n |-> Num(0, 0), returns |-> FALSE, ok |-> FALSE]

\* GetInt: the loop over keys from position i
RECURSIVE GetIntFrom(_, _, _, _)
GetIntFrom(i, kv, keys, goarch) ==
  IF i > Len(keys) THEN [v |-> IntValue(Num(0, 0)), ok |-> FALSE, ki |-> 0]
  ELSE IF keys[i] = <<>> THEN GetIntFrom(i + 1, kv, keys, goarch)
  ELSE IF keys[i] \notin DOMAIN kv THEN GetIntFrom(i + 1, kv, keys, goarch)
  ELSE LET r == GetIntSwitch(kv[keys[i]], goarch)
       IN  IF r.returns
             THEN [v |-> IntValue(r.n), ok |-> r.ok, ki |-> IF r.ok THEN i ELSE 0]
             ELSE GetIntFrom(i + 1, kv, keys, goarch)

GetInt(y, section, keys, goarch) ==
  IF ~SectionMap(y, section).ok
    THEN [v |-> IntValue(Num(0, 0)), ok |-> FALSE, ki |-> 0]
    ELSE GetIntFrom(1, SectionMap(y, section).kv, keys, goarch)

\* ------------------------------------------------------------ YAML adapter
\* template functions yamlSectionAliases and yamlKeyAliases
yamlSectionAliases(al) == al.YAMLSection
yamlKeyAliases(al, methodName) ==
  IF methodName \in DOMAIN al.YAMLKey THEN al.YAMLKey[methodName] ELSE <<>>

\* the sections in the order the template emits their lookups: the alias
\* sections, then the package's own section
YAMLSections(al, pkg) == yamlSectionAliases(al) \o <<pkg>>

\* the keys every lookup passes: the key aliases, then $keyPrimary
YAMLKeys(al, methodName) == yamlKeyAliases(al, methodName) \o <<toLower(methodName)>>

\* New<Pkg><Iface>YAMLConfigParsed
NewYAMLConfigParsed(y) == [y |-> y, err |-> FALSE]

\* func (c *<pkg>YAMLConfig) <Method>(defaultValue): one GetInt / GetString per
\* section.  hit numbers the section/key pairs section by section.
RECURSIVE YAMLMethodFrom(_, _, _, _, _, _, _)
YAMLMethodFrom(j, sections, keys, c, m, defaultValue, goarch) ==
  IF j > Len(sections) THEN [v |-> defaultValue, ok |-> FALSE, hit |-> 0]
  ELSE LET r == IF m.ReturnType = "int"
                  THEN GetInt(c.y, sections[j], keys, goarch)
                  ELSE GetString(c.y, sections[j], keys)
       IN  IF r.ok
             THEN [v |-> r.v, ok |-> TRUE, hit |-> (j - 1) * Len(keys) + r.ki]
             ELSE YAMLMethodFrom(j + 1, sections, keys, c, m, defaultValue, goarch)

YAMLMethod(c, al, pkg, m, defaultValue, goarch) ==
  YAMLMethodFrom(1, YAMLSections(al, pkg), YAMLKeys(al, m.Name), c, m,
                 defaultValue, goarch)

\* ------------------------------------------------- mock and composite
\* a mock method returning the zero value of its type
MockMethod_zeroValue(m, defaultValue) ==
  [v |-> IF m.ReturnType = "int" THEN IntValue(Num(0, 0)) ELSE StringValue(<<>>),
   ok |-> FALSE, hit |-> 0]

\* func (c *<pkg>MockConfig) <Method>(defaultValue)
MockMethod(m, defaultValue) == [v |-> defaultValue, ok |-> FALSE, hit |-> 0]

\* s.<Method>(defaultValue) on one source of the composite.  A source is an
\* environment adapter [kind, mapKey], a YAML adapter [kind, y] or a mock.
\* yAfter is the YAML object after the call (GetInt / GetString call ensure).
SourceMethod(s, env, yNow, al, pkg, m, defaultValue, goarch) ==
  IF s.kind = "env"
    THEN [r |-> EnvMethod(env, s, al, pkg, m, defaultValue), yAfter |-> yNow]
  ELSE IF s.kind = "yaml"
    THEN [r |-> YAMLMethod([y |-> yNow, err |-> FALSE], al, pkg, m, defaultValue, goarch),
          yAfter |-> ensure(yNow)]
  ELSE [r |-> MockMethod(m, defaultValue), yAfter |-> yNow]

\* func (c *<pkg>AllConfig) <Method>(defaultValue): the loop over c.sources
\* from position i.  calls lists the positions of the sources called.
RECURSIVE AllMethodFrom(_, _, _, _, _, _, _, _, _, _)
AllMethodFrom(i, srcs, env, yNow, al, pkg, m, defaultValue, goarch, calls) ==
  IF i > Len(srcs)
    THEN [v |-> defaultValue, ok |-> FALSE, yAfter |-> yNow, calls |-> calls]
    ELSE LET c == SourceMethod(srcs[i], env, yNow, al, pkg, m, defaultValue, goarch)
         IN  IF c.r.ok
               THEN [v |-> c.r.v, ok |-> TRUE, yAfter |-> c.yAfter,
                     calls |-> Append(calls, i)]
               ELSE AllMethodFrom(i + 1, srcs, env, c.yAfter, al, pkg, m, defaultValue,
                                  goarch, Append(calls, i))

RECURSIVE AllLastWinsFrom(_, _, _, _, _, _, _, _, _, _, _)
AllLastWinsFrom(i, srcs, env, yNow, al, pkg, m, defaultValue, goarch, calls, best) ==
  IF i > Len(srcs)
    THEN [v |-> best.v, ok |-> best.ok, yAfter |-> yNow, calls |-> calls]
    ELSE LET c == SourceMethod(srcs[i], env, yNow, al, pkg, m, defaultValue, goarch)
         IN  AllLastWinsFrom(i + 1, srcs, env, c.yAfter, al, pkg, m, defaultValue,
                             goarch, Append(calls, i), IF c.r.ok THEN c.r ELSE best)

AllMethod_lastWins(srcs, env, yNow, al, pkg, m, defaultValue, goarch) ==
  AllLastWinsFrom(1, srcs, env, yNow, al, pkg, m, defaultValue, goarch, <<>>,
                  [v |-> defaultValue, ok |-> FALSE, hit |-> 0])

AllMethod(srcs, env, yNow, al, pkg, m, defaultValue, goarch) ==
  AllMethodFrom(1, srcs, env, yNow, al, pkg, m, defaultValue, goarch, <<>>)

\* New<Pkg><Iface>All(sources...)
NewAll(srcs) == [sources |-> srcs]

\* ------------------------------------------------------------- registry
\* the packages generated into the shared output package
PackagePool == {UniquePackageName, <<"s","v">>}

\* Provider{Package, NewAllFromParsed}: the provider the generated init()
\* registers, and one without a factory
GeneratedProvider(pkg) == [Package |-> pkg, NewAllFromParsed |-> "generated"]
NoFactoryProvider(pkg) == [Package |-> pkg, NewAllFromParsed |-> "nil"]
ProviderPool(pkg) == {GeneratedProvider(pkg), NoFactoryProvider(pkg)}

\* var registry = map[string]Provider{}; var registryMu sync.RWMutex
EmptyRegistry == <<>>
UnlockedMutex == [r |-> 0, w |-> FALSE]

\* sync.RWMutex: Lock waits until no writer and no reader holds the mutex,
\* RLock until no writer holds it.  CanLock_always is a mutex whose Lock
\* never waits.
CanLock_always(mu) == TRUE

CanLock(mu) == ~mu.w /\ mu.r = 0
CanRLock(mu) == ~mu.w
Lock(mu) == [mu EXCEPT !.w = TRUE]
Unlock(mu) == [mu EXCEPT !.w = FALSE]
RLock(mu) == [mu EXCEPT !.r = @ + 1]
\* an RUnlock that leaves the read lock held
RUnlock_keepsLock(mu) == mu

RUnlock(mu) == [mu EXCEPT !.r = @ - 1]

\* the store making a new map that holds the one entry
RegistryStore_dropsOthers(reg, pkg, p) == (pkg :> p)

\* registry[pkg] = p
RegistryStore(reg, pkg, p) == (pkg :> p) @@ reg
\* p, ok := registry[pkg]
RegistryLoad(reg, pkg) ==
  IF pkg \in DOMAIN reg THEN [ok |-> TRUE, p |-> reg[pkg]]
  ELSE [ok |-> FALSE, p |-> [Package |-> <<>>, NewAllFromParsed |-> "nil"]]

\* the provider of the generated init(): New<Pkg><Iface>All(envCfg, yamlCfg)
NewAllFromParsed(mk) ==
  NewAll(<<[kind |-> "env", mapKey |-> NewEnvConfigWithMap(mk).mapKey],
           [kind |-> "yaml", mapKey |-> "identity"]>>)

\* Get<Pkg> without the test of the factory
ProviderResult_ignoresFactory(op, pkg, look) ==
  IF ~look.ok THEN [cfg |-> <<>>, found |-> FALSE]
  ELSE [cfg |-> look.p.Package, found |-> TRUE]

\* what Get<Pkg> and NewAllFromYAML return after p, ok := registry[pkg]: no
\* adapter when !ok or the factory is nil; Get<Pkg> also asserts the type
\* of the adapter, *<pkg>AllConfig
ProviderResult(op, pkg, look) ==
  IF ~look.ok \/ look.p.NewAllFromParsed = "nil" THEN [cfg |-> <<>>, found |-> FALSE]
  ELSE IF op = "Get" /\ look.p.Package # pkg THEN [cfg |-> <<>>, found |-> FALSE]
  ELSE [cfg |-> look.p.Package, found |-> TRUE]

\* ------------------------------------------------------------- facade
\* NewEnvConfig(mapKey): a nil mapKey becomes the identity
NewEnvConfig(mk) ==
  [mapKey |-> IF mk = "nil" THEN "identity" ELSE mk, nil |-> FALSE,
   type |-> "EnvConfig", path |-> ""]
\* NewGlobalYamlConfig(path)
NewGlobalYamlConfig(path) ==
  [mapKey |-> "nil", nil |-> FALSE, type |-> "GlobalYamlConfig", path |-> path]
\* a nil pointer of either source type, and a value of another type
NilSource(type) == [mapKey |-> "nil", nil |-> TRUE, type |-> type, path |-> ""]
OtherSource == [mapKey |-> "nil", nil |-> FALSE, type |-> "other", path |-> ""]

\* the file at ConfigPath: absent, or present with its content
ConfigPath == "config.yaml"
MissingFile == [data |-> [root |-> <<>>, bad |-> FALSE], exists |-> FALSE]
FileOf(data) == [data |-> data, exists |-> TRUE]
\* os.ReadFile(path)
ReadFile(file, path) ==
  IF path = ConfigPath /\ file.exists THEN [err |-> FALSE, b |-> file.data]
  ELSE [err |-> TRUE, b |-> [root |-> <<>>, bad |-> FALSE]]

\* NewGlobalConfig: the loop over sources from position i.  The variant
\* ...firstSourceOnly looks at sources[0] alone.
GlobalSourcesFrom_firstSourceOnly(i, srcs, mk, yamlPath) ==
  IF srcs = <<>> THEN [mapKey |-> mk, yamlPath |-> yamlPath]
  ELSE LET t == srcs[1] IN
       IF t.type = "EnvConfig" /\ ~t.nil /\ t.mapKey # "nil"
         THEN [mapKey |-> t.mapKey, yamlPath |-> yamlPath]
       ELSE IF t.type = "GlobalYamlConfig" /\ ~t.nil /\ t.path # ""
         THEN [mapKey |-> mk, yamlPath |-> t.path]
       ELSE [mapKey |-> mk, yamlPath |-> yamlPath]

\* NewGlobalConfig's loop with the path test dropped: a document source with
\* an empty path sets yamlPath too
RECURSIVE GlobalSourcesFrom_emptyPathCancels(_, _, _, _)
GlobalSourcesFrom_emptyPathCancels(i, srcs, mk, yamlPath) ==
  IF i > Len(srcs) THEN [mapKey |-> mk, yamlPath |-> yamlPath]
  ELSE LET t == srcs[i] IN
       IF t.type = "EnvConfig" /\ ~t.nil /\ t.mapKey # "nil"
         THEN GlobalSourcesFrom_emptyPathCancels(i + 1, srcs, t.mapKey, yamlPath)
       ELSE IF t.type = "GlobalYamlConfig" /\ ~t.nil
         THEN GlobalSourcesFrom_emptyPathCancels(i + 1, srcs, mk, t.path)
       ELSE GlobalSourcesFrom_emptyPathCancels(i + 1, srcs, mk, yamlPath)

RECURSIVE GlobalSourcesFrom(_, _, _, _)
GlobalSourcesFrom(i, srcs, mk, yamlPath) ==
  IF i > Len(srcs) THEN [mapKey |-> mk, yamlPath |-> yamlPath]
  ELSE LET t == srcs[i] IN
       IF t.type = "EnvConfig" /\ ~t.nil /\ t.mapKey # "nil"
         THEN GlobalSourcesFrom(i + 1, srcs, t.mapKey, yamlPath)
       ELSE IF t.type = "GlobalYamlConfig" /\ ~t.nil /\ t.path # ""
         THEN GlobalSourcesFrom(i + 1, srcs, mk, t.path)
       ELSE GlobalSourcesFrom(i + 1, srcs, mk, yamlPath)

\* NewGlobalConfig(sources...): the facade and the error it returns, and the
\* reads and parses of the file it made.  The variant ...keepsFacade returns
\* the facade, over an empty document, also when the read or the parse fails.
NilGlobalConfig == [y |-> ZeroYAML, mapKey |-> "identity", nil |-> TRUE]
NewGlobalConfig_keepsFacade(srcs, file) ==
  LET s == GlobalSourcesFrom(1, srcs, "identity", "")
      made == [y |-> ZeroYAML, mapKey |-> s.mapKey, nil |-> FALSE]
  IN  IF s.yamlPath # ""
        THEN LET rd == ReadFile(file, s.yamlPath) IN
             IF rd.err
               THEN [err |-> TRUE, g |-> made, reads |-> 1, parses |-> 0]
             ELSE LET parsed == ParseYAML(rd.b) IN
                  IF parsed.err
                    THEN [err |-> TRUE, g |-> made, reads |-> 1, parses |-> 1]
                    ELSE [err |-> FALSE, g |-> [made EXCEPT !.y = parsed.y],
                          reads |-> 1, parses |-> 1]
        ELSE [err |-> FALSE, g |-> made, reads |-> 0, parses |-> 0]

NewGlobalConfig(srcs, file) ==
  LET s == GlobalSourcesFrom(1, srcs, "identity", "")
      made == [y |-> ZeroYAML, mapKey |-> s.mapKey, nil |-> FALSE]
  IN  IF s.yamlPath # ""
        THEN LET rd == ReadFile(file, s.yamlPath) IN
             IF rd.err
               THEN [err |-> TRUE, g |-> NilGlobalConfig, reads |-> 1, parses |-> 0]
             ELSE LET parsed == ParseYAML(rd.b) IN
                  IF parsed.err
                    THEN [err |-> TRUE, g |-> NilGlobalConfig, reads |-> 1,
                          parses |-> 1]
                    ELSE [err |-> FALSE, g |-> [made EXCEPT !.y = parsed.y],
                          reads |-> 1, parses |-> 1]
        ELSE [err |-> FALSE, g |-> made, reads |-> 0, parses |-> 0]

\* ------------------------------------------------- worlds of the lookups
GoArchs == {"amd64", "arm64"}

EnvAliasPool == { <<"S","R","V">>, <<"A","L","T">> }
EnvValues == { <<>>, <<"-","7">>, <<"7","x">> }
CanonicalEnvKeys == {getEnvKey(UniquePackageName, m.Name) : m \in MethodSet}
EnvNames ==
  LET plain == EnvAliasPool \cup CanonicalEnvKeys
  IN  plain \cup {KeyPrefix \o k : k \in plain}
Environments ==
  {e \in [EnvNames -> EnvValues] :
     Cardinality({k \in EnvNames : e[k] # <<>>}) <= MaxEnvSet}
NoEnvironment == [k \in EnvNames |-> <<>>]

NoAliases == [Env |-> <<>>, YAMLSection |-> <<>>, YAMLKey |-> <<>>]
\* alias settings with env aliases for at most one method
EnvAliasSettings ==
  {NoAliases} \cup
  {[NoAliases EXCEPT !.Env = (m.Name :> l)] :
     m \in MethodSet, l \in SeqsUpTo(EnvAliasPool, MaxAliases) \ {<<>>}}

\* alias lists without repetition
DistinctSeqsUpTo(S, n) ==
  {q \in SeqsUpTo(S, n) : \A a, b \in 1..Len(q) : q[a] = q[b] => a = b}

\* documents: at most MaxDocEntries key/value entries over the sections and
\* keys given, at most one further section that is not a map
SectionPool == { <<"s","v","c">>, <<"a","p","p">> }
KeyPool == { <<"k","a">>, <<"k","b">> }
DocValuesOf(m) ==
  IF m.ReturnType = "int"
    THEN { IntValue(Num(0, 5432)),
           StringValue(<<"b","a","r">>),
           Float64Value(Num(0, 5)),                              \* 5.0
           Float64Value([h |-> 0, o |-> 5, half |-> TRUE]),      \* 5.5
           Float64Value(Num(1, 0)),                              \* 2^63
           Float64Value(Num(2, 0)) }                             \* 2^64
    ELSE { StringValue(<<"b","a","r">>), IntValue(Num(0, 5432)) }

RootOf(entries, scalars) ==
  [sec \in {e[1] : e \in DOMAIN entries} \cup scalars |->
     IF sec \in scalars THEN ScalarSection
     ELSE MapSection([k \in {e[2] : e \in {x \in DOMAIN entries : x[1] = sec}} |->
                        entries[<<sec, k>>]])]

\* the documents over the sections and keys given: at most MaxDocEntries
\* entries, and at most one section that is not a map next to at most one entry
DocShapes(sections, keys) ==
  LET slots == sections \X keys
      doms  == {D \in SUBSET slots : Cardinality(D) <= MaxDocEntries}
  IN  {[scalars |-> {}, dom |-> D] : D \in doms}
      \cup {[scalars |-> {sc}, dom |-> {sl \in D : sl[1] # sc}] :
              D \in {X \in doms : Cardinality(X) <= 1}, sc \in sections}

\* the worlds of the YAML adapter: the section aliases and the key aliases of
\* the method under test are drawn from one of these pairs of pools
YAMLPools ==
  { [keys |-> {}, sections |-> SectionPool],
    [keys |-> KeyPool, sections |-> {}],
    [keys |-> {<<"k","a">>}, sections |-> {<<"s","v","c">>}] }

YAMLAliasSettings(m, sl, kl) ==
  [NoAliases EXCEPT !.YAMLSection = sl,
                    !.YAMLKey = IF kl = <<>> THEN <<>> ELSE (m.Name :> kl)]

NoCall == [v |-> StringValue(<<>>), m |-> <<>>, ok |-> FALSE, hit |-> 0,
           calls |-> <<>>, op |-> "none", d |-> StringValue(<<>>)]

\* the goroutines of the model
Goroutines == {"g1", "g2"}

\* a goroutine between two calls.  pc is its position in the call it is
\* making; cfg is the package of the adapter it got from Get<Pkg> (<<>> for
\* none); the other fields are the locals of the call.
IdleThread ==
  [err |-> FALSE, m |-> Methods[1], ok |-> FALSE, pkg |-> <<>>,
   p |-> NoFactoryProvider(<<>>), op |-> "none", cfg |-> <<>>, found |-> FALSE,
   d |-> StringValue(<<>>), pc |-> "idle", seen |-> {}, out |-> EmptyRegistry]
Idle(th) == [IdleThread EXCEPT !.cfg = th.cfg]

NoDisk == [file |-> MissingFile, reads |-> 0, parses |-> 0]
\* before NewGlobalConfig was called
NoGlobalConfig ==
  [y |-> ZeroYAML, err |-> FALSE, mapKey |-> "identity", nil |-> TRUE, srcs |-> <<>>,
   made |-> FALSE]
\* the value of g after NewGlobalConfig(srcs) returned r
GlobalConfigOf(srcs, r) ==
  [y |-> r.g.y, err |-> r.err, mapKey |-> r.g.mapKey, nil |-> r.g.nil, srcs |-> srcs,
   made |-> TRUE]

\* the generator is not running: the generated code is in place
NoRun ==
  [i |-> 0, methodName |-> <<>>, key |-> <<>>, pc |-> "exited",
   uniquePackageName |-> <<>>, snake |-> <<>>, again |-> <<>>, relPath |-> <<>>,
   before |-> <<>>, interfaceName |-> "", packageNameOverride |-> <<>>,
   outputPath |-> "", examplePath |-> "", registryEnabled |-> FALSE,
   aliasFlags |-> <<>>, decl |-> [kind |-> "absent", List |-> <<>>], methods |-> <<>>,
   info |-> <<>>, aliasSettings |-> NoAliases, status |-> 0, fatal |-> <<>>,
   files |-> ("registry.gen.go" :> "absent" @@ "%s.gen.go" :> "absent"
              @@ "%s_example.yaml" :> "absent"),
   currentDir |-> <<>>, dir |-> <<>>, moduleRoot |-> <<>>, goMods |-> {},
   symbols |-> <<>>]

\* no registry, no facade, no goroutine at work: the adapters on their own
RuntimeAtRest ==
  /\ registry = EmptyRegistry
  /\ registryMu = UnlockedMutex
  /\ returned = {}
  /\ threads = [t \in Goroutines |-> IdleThread]
  /\ disk = NoDisk
  /\ g = NoGlobalConfig

\* the state of the registry and the facade
runtimeVars == <<registry, registryMu, returned, threads, disk, g>>

vars == <<aliases, environ, mapKey, yaml, yamlErr, GOARCH, sources, ret,
          registry, registryMu, returned, threads, disk, g, gen>>

\* a caller invokes method m of the environment adapter
EnvCall(m, d) ==
  /\ LET r == EnvMethod(environ, NewEnvConfigWithMap(mapKey), aliases,
                        UniquePackageName, m, d)
     IN  ret' = [v |-> r.v, m |-> m.Name, ok |-> r.ok, hit |-> r.hit, calls |-> <<>>,
                 op |-> "env", d |-> d]
  /\ UNCHANGED <<aliases, environ, mapKey, yaml, yamlErr, GOARCH, sources, gen>>
  /\ UNCHANGED runtimeVars

InitEnv ==
  /\ aliases \in EnvAliasSettings
  /\ environ \in Environments
  /\ mapKey \in MapKeys \cup {"nil"}
  /\ yaml = ZeroYAML
  /\ GOARCH = "amd64"
  /\ sources = <<>>
  /\ ret = NoCall
  /\ yamlErr = FALSE
  /\ RuntimeAtRest
  /\ gen = NoRun

NextEnv == \E m \in MethodSet : \E d \in DefaultsOf(m) : EnvCall(m, d)

SpecEnv == InitEnv /\ [][NextEnv]_vars

\* a caller invokes method m of the YAML adapter; GetInt and GetString begin
\* with y.ensure()
YAMLCall(m, d) ==
  /\ LET r == YAMLMethod(NewYAMLConfigParsed(yaml), aliases, UniquePackageName, m, d,
                         GOARCH)
     IN  ret' = [v |-> r.v, m |-> m.Name, ok |-> r.ok, hit |-> r.hit, calls |-> <<>>,
                 op |-> "yaml", d |-> d]
  /\ yaml' = ensure(yaml)
  /\ UNCHANGED <<aliases, environ, mapKey, yamlErr, GOARCH, sources, gen>>
  /\ UNCHANGED runtimeVars

InitYAML ==
  /\ \E m \in MethodSet, pools \in YAMLPools :
       \E sl \in DistinctSeqsUpTo(pools.sections, MaxAliases),
          kl \in DistinctSeqsUpTo(pools.keys, MaxAliases) :
         /\ aliases = YAMLAliasSettings(m, sl, kl)
         /\ \/ yaml = ZeroYAML
            \/ \E shape \in DocShapes(pools.sections \cup {UniquePackageName},
                                      pools.keys \cup {toLower(m.Name)}) :
                 \E f \in [shape.dom -> DocValuesOf(m)] :
                   yaml = ParseYAML([root |-> RootOf(f, shape.scalars), bad |-> FALSE]).y
  /\ environ = NoEnvironment
  /\ mapKey = "identity"
  /\ GOARCH \in GoArchs
  /\ sources = <<>>
  /\ ret = NoCall
  /\ yamlErr = FALSE
  /\ RuntimeAtRest
  /\ gen = NoRun

NextYAML == \E m \in MethodSet : \E d \in DefaultsOf(m) : YAMLCall(m, d)

SpecYAML == InitYAML /\ [][NextYAML]_vars

\* the sources the callers of the model hand to the composite: the package's
\* environment adapter, its YAML adapter, a mock
SourceOf(kind, mk) ==
  IF kind = "env" THEN [kind |-> "env", mapKey |-> NewEnvConfigWithMap(mk).mapKey]
  ELSE [kind |-> kind, mapKey |-> "identity"]
SourcesOf(kinds, mk) == [i \in 1..Len(kinds) |-> SourceOf(kinds[i], mk)]

\* a caller invokes method m of the composite adapter
AllCall(m, d) ==
  /\ LET r == AllMethod(NewAll(SourcesOf(sources, mapKey)).sources, environ, yaml,
                        aliases, UniquePackageName, m, d, GOARCH)
     IN  /\ ret' = [v |-> r.v, m |-> m.Name, ok |-> r.ok, hit |-> 0, calls |-> r.calls,
                    op |-> "all", d |-> d]
         /\ yaml' = r.yAfter
  /\ UNCHANGED <<aliases, environ, mapKey, yamlErr, GOARCH, sources, gen>>
  /\ UNCHANGED runtimeVars

\* documents of the composite's worlds
SmallRoots ==
  { <<>>,
    (UniquePackageName :> MapSection(
       (toLower(HostName) :> StringValue(<<"b","a","r">>))
       @@ (toLower(PortName) :> IntValue(Num(0, 5432))))),
    (UniquePackageName :> MapSection(
       (toLower(PortName) :> Float64Value([h |-> 0, o |-> 5, half |-> TRUE])))) }

InitAll ==
  /\ aliases = NoAliases
  /\ environ \in {e \in Environments : \A k \in EnvNames \ CanonicalEnvKeys : e[k] = <<>>}
  /\ mapKey = "identity"
  /\ yaml \in {ZeroYAML} \cup {ParseYAML([root |-> r, bad |-> FALSE]).y : r \in SmallRoots}
  /\ GOARCH = "amd64"
  /\ sources \in SeqsUpTo({"env", "yaml", "mock"}, MaxSources)
  /\ ret = NoCall
  /\ yamlErr = FALSE
  /\ RuntimeAtRest
  /\ gen = NoRun

NextAll == \E m \in MethodSet : \E d \in DefaultsOf(m) : AllCall(m, d)

SpecAll == InitAll /\ [][NextAll]_vars

\* ------------------------------------------- registry and facade at work
adapterVars == <<aliases, environ, mapKey, yaml, yamlErr, GOARCH, sources, gen>>

\* Register(pkg, p): registryMu.Lock()
RegisterCall(t, pkg, p) ==
  /\ threads[t].pc = "idle"
  /\ CanLock(registryMu)
  /\ registryMu' = Lock(registryMu)
  /\ threads' = [threads EXCEPT ![t] =
       [Idle(@) EXCEPT !.pc = "reg_write", !.op = "Register", !.pkg = pkg, !.p = p]]
  /\ UNCHANGED <<registry, returned, disk, g, ret>>
  /\ UNCHANGED adapterVars

\* Register: registry[pkg] = p
RegisterStore(t) ==
  /\ threads[t].pc = "reg_write"
  /\ registry' = RegistryStore(registry, threads[t].pkg, threads[t].p)
  /\ threads' = [threads EXCEPT ![t].pc = "reg_unlock"]
  /\ UNCHANGED <<registryMu, returned, disk, g, ret>>
  /\ UNCHANGED adapterVars

\* Register: the deferred registryMu.Unlock(), and the return
RegisterReturn(t) ==
  /\ threads[t].pc = "reg_unlock"
  /\ registryMu' = Unlock(registryMu)
  /\ returned' = returned \cup {threads[t].pkg}
  /\ threads' = [threads EXCEPT ![t] = Idle(@)]
  /\ UNCHANGED <<registry, disk, g, ret>>
  /\ UNCHANGED adapterVars

\* Providers(): registryMu.RLock()
ProvidersCall(t) ==
  /\ threads[t].pc = "idle"
  /\ CanRLock(registryMu)
  /\ registryMu' = RLock(registryMu)
  /\ threads' = [threads EXCEPT ![t] =
       [Idle(@) EXCEPT !.pc = "copy", !.op = "Providers", !.seen = returned]]
  /\ UNCHANGED <<registry, returned, disk, g, ret>>
  /\ UNCHANGED adapterVars

\* Providers: the loop copying registry into out
ProvidersCopy(t) ==
  /\ threads[t].pc = "copy"
  /\ threads' = [threads EXCEPT ![t].pc = "copied", ![t].out = registry]
  /\ UNCHANGED <<registry, registryMu, returned, disk, g, ret>>
  /\ UNCHANGED adapterVars

\* Providers: the deferred registryMu.RUnlock(), and return out
ProvidersReturn(t) ==
  /\ threads[t].pc = "copied"
  /\ registryMu' = RUnlock(registryMu)
  /\ threads' = [threads EXCEPT ![t].pc = "return"]
  /\ UNCHANGED <<registry, returned, disk, g, ret>>
  /\ UNCHANGED adapterVars

\* g.Get<Pkg>(): registryMu.RLock()
GetCall(t, pkg) ==
  /\ threads[t].pc = "idle"
  /\ g.made /\ ~g.nil
  /\ CanRLock(registryMu)
  /\ registryMu' = RLock(registryMu)
  /\ threads' = [threads EXCEPT ![t] =
       [Idle(@) EXCEPT !.pc = "read", !.op = "Get", !.pkg = pkg, !.seen = returned]]
  /\ UNCHANGED <<registry, returned, disk, g, ret>>
  /\ UNCHANGED adapterVars

\* NewAllFromYAML(pkg, yamlData): ParseYAML, return on its error, else
\* registryMu.RLock()
NewAllFromYAMLCall(t, pkg, data) ==
  /\ threads[t].pc = "idle"
  /\ IF ParseYAML(data).err
       THEN /\ threads' = [threads EXCEPT ![t] =
                 [Idle(@) EXCEPT !.pc = "return", !.op = "NewAllFromYAML",
                                 !.pkg = pkg, !.err = TRUE]]
            /\ UNCHANGED registryMu
       ELSE /\ CanRLock(registryMu)
            /\ registryMu' = RLock(registryMu)
            /\ threads' = [threads EXCEPT ![t] =
                 [Idle(@) EXCEPT !.pc = "read", !.op = "NewAllFromYAML",
                                 !.pkg = pkg, !.seen = returned]]
  /\ UNCHANGED <<registry, returned, disk, g, ret>>
  /\ UNCHANGED adapterVars

\* Get<Pkg> and NewAllFromYAML: p, ok := registry[pkg]
RegistryRead(t) ==
  /\ threads[t].pc = "read"
  /\ LET look == RegistryLoad(registry, threads[t].pkg)
     IN  threads' = [threads EXCEPT ![t].pc = "runlock", ![t].ok = look.ok,
                                    ![t].p = look.p]
  /\ UNCHANGED <<registry, registryMu, returned, disk, g, ret>>
  /\ UNCHANGED adapterVars

\* Get<Pkg> and NewAllFromYAML: registryMu.RUnlock()
RegistryReadUnlock(t) ==
  /\ threads[t].pc = "runlock"
  /\ registryMu' = RUnlock(registryMu)
  /\ threads' = [threads EXCEPT ![t].pc = "invoke"]
  /\ UNCHANGED <<registry, returned, disk, g, ret>>
  /\ UNCHANGED adapterVars

\* Get<Pkg> and NewAllFromYAML: the test of ok and of the factory, and the
\* call of the factory.  The goroutine keeps the adapter Get<Pkg> gave it.
ProviderInvoke(t) ==
  /\ threads[t].pc = "invoke"
  /\ LET th == threads[t]
         res == ProviderResult(th.op, th.pkg, [ok |-> th.ok, p |-> th.p])
     IN  threads' = [threads EXCEPT ![t].pc = "return", ![t].found = res.found,
                       ![t].cfg = IF th.op = "Get" THEN res.cfg ELSE th.cfg]
  /\ UNCHANGED <<registry, registryMu, returned, disk, g, ret>>
  /\ UNCHANGED adapterVars

\* the caller has taken what the call returned
Return(t) ==
  /\ threads[t].pc = "return"
  /\ threads' = [threads EXCEPT ![t] = Idle(@)]
  /\ UNCHANGED <<registry, registryMu, returned, disk, g, ret>>
  /\ UNCHANGED adapterVars

\* the result of method m on the adapter a goroutine got from the facade
FacadeMethod(th, y, m, d) ==
  AllMethod(NewAllFromParsed(g.mapKey).sources, environ, y, aliases, th.cfg, m, d,
            GOARCH)
LookupRet(m, d, r) ==
  [v |-> r.v, m |-> m.Name, ok |-> r.ok, hit |-> 0, calls |-> r.calls, op |-> "all",
   d |-> d]

\* cfg.<Method>(d) on the adapter of the goroutine: the environment adapter
\* is called; when it has no value the YAML adapter is called next
LookupCall(t, m, d) ==
  /\ threads[t].pc = "idle"
  /\ threads[t].cfg # <<>>
  /\ LET r == FacadeMethod(threads[t], g.y, m, d) IN
     IF r.calls = <<1>>
       THEN /\ ret' = LookupRet(m, d, r)
            /\ UNCHANGED threads
       ELSE /\ threads' = [threads EXCEPT ![t].pc = "ensure", ![t].op = "Lookup",
                                          ![t].m = m, ![t].d = d]
            /\ UNCHANGED ret
  /\ UNCHANGED <<registry, registryMu, returned, disk, g>>
  /\ UNCHANGED adapterVars

\* y.ensure(): the test y.root == nil
LookupEnsure(t) ==
  /\ threads[t].pc = "ensure"
  /\ threads' = [threads EXCEPT ![t].pc = IF g.y.nil THEN "ensure_write" ELSE "get"]
  /\ UNCHANGED <<registry, registryMu, returned, disk, g, ret>>
  /\ UNCHANGED adapterVars

\* y.ensure(): y.root = map[string]any{}
LookupEnsureWrite(t) ==
  /\ threads[t].pc = "ensure_write"
  /\ g' = [g EXCEPT !.y = [nil |-> FALSE, root |-> <<>>]]
  /\ threads' = [threads EXCEPT ![t].pc = "get"]
  /\ UNCHANGED <<registry, registryMu, returned, disk, ret>>
  /\ UNCHANGED adapterVars

\* the reads of y.root in GetInt / GetString, and the return of the method.
\* A read that races with the write of another goroutine's ensure sees the
\* nil map or the empty map: both hold no section.
LookupGet(t) ==
  /\ threads[t].pc = "get"
  /\ ret' = LookupRet(threads[t].m, threads[t].d,
                      FacadeMethod(threads[t], g.y, threads[t].m, threads[t].d))
  /\ threads' = [threads EXCEPT ![t] = Idle(@)]
  /\ UNCHANGED <<registry, registryMu, returned, disk, g>>
  /\ UNCHANGED adapterVars

\* the documents of the facade's worlds, and the data NewAllFromYAML is given
FacadeFiles ==
  {MissingFile, FileOf([root |-> <<>>, bad |-> TRUE])}
  \cup {FileOf([root |-> r, bad |-> FALSE]) : r \in SmallRoots}
YAMLData == {[root |-> <<>>, bad |-> TRUE], [root |-> <<>>, bad |-> FALSE]}

\* the program at work: main has built its facade, without a document source,
\* with a document that sets db.host and db.port, or with an environment source
\* and a document source without a path; goroutines register packages, read
\* the registry and look values up
HostPortFile ==
  FileOf([root |-> (UniquePackageName :> MapSection(
                      (toLower(HostName) :> StringValue(<<"b","a","r">>))
                      @@ (toLower(PortName) :> IntValue(Num(0, 5432))))),
          bad |-> FALSE])
MainWorlds ==
  { [srcs |-> <<>>, file |-> MissingFile],
    [srcs |-> <<NewGlobalYamlConfig(ConfigPath)>>, file |-> HostPortFile],
    [srcs |-> <<NewEnvConfig("nil"), NewGlobalYamlConfig("")>>, file |-> HostPortFile] }

Init ==
  /\ aliases = NoAliases
  /\ environ = NoEnvironment
  /\ mapKey = "identity"
  /\ yaml = ZeroYAML
  /\ GOARCH = "amd64"
  /\ sources = <<>>
  /\ ret = NoCall
  /\ yamlErr = FALSE
  /\ registry = EmptyRegistry
  /\ registryMu = UnlockedMutex
  /\ returned = {}
  /\ threads = [t \in Goroutines |-> IdleThread]
  /\ gen = NoRun
  /\ \E w \in MainWorlds :
       LET r == NewGlobalConfig(w.srcs, w.file) IN
       /\ disk = [file |-> w.file, reads |-> r.reads, parses |-> r.parses]
       /\ g = GlobalConfigOf(w.srcs, r)

Next ==
  \E t \in Goroutines :
    \/ \E pkg \in PackagePool : \E p \in ProviderPool(pkg) : RegisterCall(t, pkg, p)
    \/ RegisterStore(t)
    \/ RegisterReturn(t)
    \/ ProvidersCall(t)
    \/ ProvidersCopy(t)
    \/ ProvidersReturn(t)
    \/ \E pkg \in PackagePool : GetCall(t, pkg)
    \/ \E pkg \in PackagePool : \E data \in YAMLData : NewAllFromYAMLCall(t, pkg, data)
    \/ RegistryRead(t)
    \/ RegistryReadUnlock(t)
    \/ ProviderInvoke(t)
    \/ Return(t)
    \/ \E m \in MethodSet : \E d \in DefaultsOf(m) : LookupCall(t, m, d)
    \/ LookupEnsure(t)
    \/ LookupEnsureWrite(t)
    \/ LookupGet(t)

Spec == Init /\ [][Next]_vars

\* the facade from its construction on: init() of every generated package has
\* run, main calls NewGlobalConfig, then the accessors and the methods of the
\* adapters they return
GlobalSourcePool ==
  { NewEnvConfig("nil"), NewEnvConfig("prefix"), NewGlobalYamlConfig(""),
    NewGlobalYamlConfig(ConfigPath), NilSource("EnvConfig"), OtherSource }
FacadeEnvironments ==
  {e \in Environments :
     /\ \A k \in EnvAliasPool \cup {KeyPrefix \o a : a \in EnvAliasPool} : e[k] = <<>>
     /\ Cardinality({k \in EnvNames : e[k] # <<>>}) <= 1}

\* main calls NewGlobalConfig(srcs...)
Construct(srcs) ==
  /\ ~g.made
  /\ LET r == NewGlobalConfig(srcs, disk.file) IN
     /\ g' = GlobalConfigOf(srcs, r)
     /\ disk' = [disk EXCEPT !.reads = @ + r.reads, !.parses = @ + r.parses]
  /\ UNCHANGED <<registry, registryMu, returned, threads, ret>>
  /\ UNCHANGED adapterVars

InitFacade ==
  /\ aliases = NoAliases
  /\ environ \in FacadeEnvironments
  /\ mapKey = "identity"
  /\ yaml = ZeroYAML
  /\ GOARCH = "amd64"
  /\ sources = <<>>
  /\ ret = NoCall
  /\ yamlErr = FALSE
  /\ registry = [pkg \in PackagePool |-> GeneratedProvider(pkg)]
  /\ registryMu = UnlockedMutex
  /\ returned = PackagePool
  /\ threads = [t \in Goroutines |-> IdleThread]
  /\ gen = NoRun
  /\ disk \in {[NoDisk EXCEPT !.file = f] : f \in FacadeFiles}
  /\ g = NoGlobalConfig

MainGoroutine == "g1"

NextFacade ==
  \/ \E srcs \in SeqsUpTo(GlobalSourcePool, MaxGlobalSources) : Construct(srcs)
  \/ GetCall(MainGoroutine, UniquePackageName)
  \/ RegistryRead(MainGoroutine)
  \/ RegistryReadUnlock(MainGoroutine)
  \/ ProviderInvoke(MainGoroutine)
  \/ Return(MainGoroutine)
  \/ \E m \in MethodSet : \E d \in DefaultsOf(m) : LookupCall(MainGoroutine, m, d)
  \/ LookupEnsure(MainGoroutine)
  \/ LookupEnsureWrite(MainGoroutine)
  \/ LookupGet(MainGoroutine)

SpecFacade == InitFacade /\ [][NextFacade]_vars

\* ================================================================= claims
\* what the claims expect, stated without the operators of the model
ExpectedCanonicalEnvKey(methodName) ==
  IF methodName = HostName THEN <<"D","B","_","H","O","S","T">>
  ELSE <<"D","B","_","P","O","R","T">>
ExpectedEnvKeys(methodName) ==
  (IF methodName \in DOMAIN aliases.Env THEN aliases.Env[methodName] ELSE <<>>)
    \o <<ExpectedCanonicalEnvKey(methodName)>>
ExpectedMapKey(k) == IF mapKey = "prefix" THEN <<"A","_">> \o k ELSE k
ExpectedEnvText(methodName, i) ==
  LET k == ExpectedMapKey(ExpectedEnvKeys(methodName)[i])
  IN  IF k \in DOMAIN environ THEN environ[k] ELSE <<>>
IsIntMethod(methodName) == methodName = PortName
\* the text is an optionally signed run of decimal digits
IsDecimalText(s) ==
  LET body == IF s # <<>> /\ Head(s) \in {"+", "-"} THEN Tail(s) ELSE s
  IN  body # <<>> /\ \A i \in 1..Len(body) : body[i] \in
        {"0","1","2","3","4","5","6","7","8","9"}
\* the typed value a text stands for
EnvTextValue(methodName, s) ==
  IF IsIntMethod(methodName) THEN IntValue(Num(0, Atoi(s).v)) ELSE StringValue(s)
FirstIn(S) == IF S = {} THEN 0 ELSE CHOOSE i \in S : \A j \in S : i <= j

\* C2 as stated: the environment adapter returns (value, true) for the first
\* candidate key [aliases in order, then canonical key, each through mapKey]
\* whose environment value is a non-empty string, and (defaultValue, false)
\* when no candidate key has a non-empty value.
C2_AsStated ==
  ret.op = "env" =>
    LET n == Len(ExpectedEnvKeys(ret.m))
        i == FirstIn({j \in 1..n : ExpectedEnvText(ret.m, j) # <<>>})
    IN  IF i = 0 THEN ~ret.ok /\ ret.v = ret.d
        ELSE ret.ok /\ ret.hit = i
             /\ ret.v = EnvTextValue(ret.m, ExpectedEnvText(ret.m, i))

\* C2 amended: the environment adapter returns (value, true) for the first
\* candidate key [aliases in order, then canonical key, each through mapKey]
\* whose environment value is non-empty and, for an integer-typed method,
\* parses as a base-10 integer; (defaultValue, false) when there is no such key.
C2_EnvFirstUsableKeyWins ==
  ret.op = "env" =>
    LET n == Len(ExpectedEnvKeys(ret.m))
        usable(j) == /\ ExpectedEnvText(ret.m, j) # <<>>
                     /\ IsIntMethod(ret.m) => IsDecimalText(ExpectedEnvText(ret.m, j))
        i == FirstIn({j \in 1..n : usable(j)})
    IN  IF i = 0 THEN ~ret.ok /\ ret.v = ret.d
        ELSE ret.ok /\ ret.hit = i
             /\ ret.v = EnvTextValue(ret.m, ExpectedEnvText(ret.m, i))

\* C2 witness: an alias and the canonical key are both set, to different
\* values, and the lookup returned the alias's value.
C2_Witness ==
  /\ ret.op = "env" /\ ret.ok /\ ret.hit = 1
  /\ Len(ExpectedEnvKeys(ret.m)) >= 2
  /\ ExpectedEnvText(ret.m, Len(ExpectedEnvKeys(ret.m))) # <<>>
  /\ ExpectedEnvText(ret.m, Len(ExpectedEnvKeys(ret.m))) # ExpectedEnvText(ret.m, 1)

\* C3: for an integer-typed method a candidate key holding a non-empty text
\* that is no base-10 integer counts as absent for that key only: the result
\* is the one the lookup gives with that variable unset, it is found exactly
\* when some candidate key holds a parseable integer, and it is
\* (defaultValue, false) otherwise.
C3_MalformedIntIsAbsentForThatKey ==
  (ret.op = "env" /\ IsIntMethod(ret.m)) =>
    LET n == Len(ExpectedEnvKeys(ret.m))
        malformed(j) == /\ ExpectedEnvText(ret.m, j) # <<>>
                        /\ ~IsDecimalText(ExpectedEnvText(ret.m, j))
        parseable == {j \in 1..n : IsDecimalText(ExpectedEnvText(ret.m, j))}
        unset(j) == [environ EXCEPT ![ExpectedMapKey(ExpectedEnvKeys(ret.m)[j])] = <<>>]
        again(env) == EnvMethod(env, NewEnvConfigWithMap(mapKey), aliases,
                                UniquePackageName, Methods[2], ret.d)
    IN  /\ ret.ok <=> parseable # {}
        /\ ~ret.ok => ret.v = ret.d
        /\ \A j \in 1..n : malformed(j) =>
             /\ again(unset(j)).ok = ret.ok
             /\ again(unset(j)).v = ret.v

\* C3 witness: the first alias of the integer method holds a malformed text,
\* a later candidate key holds an integer, and the lookup returned that one.
C3_Witness ==
  /\ ret.op = "env" /\ IsIntMethod(ret.m)
  /\ Len(ExpectedEnvKeys(ret.m)) >= 2
  /\ ExpectedEnvText(ret.m, 1) = <<"7","x">>
  /\ ret.ok /\ ret.hit > 1 /\ ret.v = IntValue(Num(0, -7))

\* ---- the YAML adapter's claims
ExpectedYAMLSections == aliases.YAMLSection \o << <<"d","b">> >>
ExpectedYAMLKeys(methodName) ==
  (IF methodName \in DOMAIN aliases.YAMLKey THEN aliases.YAMLKey[methodName] ELSE <<>>)
    \o << IF methodName = HostName THEN <<"h","o","s","t">> ELSE <<"p","o","r","t">> >>
\* the section/key pairs of a lookup in search order: section by section
ExpectedYAMLPairs(methodName) ==
  LET secs == ExpectedYAMLSections
      keys == ExpectedYAMLKeys(methodName)
  IN  [p \in 1..(Len(secs) * Len(keys)) |->
         [key |-> keys[((p - 1) % Len(keys)) + 1],
          sec |-> secs[((p - 1) \div Len(keys)) + 1]]]
\* the document held when the call began has a value under the pair
HasEntry(doc, pair) ==
  /\ ~doc.nil
  /\ pair.sec \in DOMAIN doc.root
  /\ doc.root[pair.sec].isMap
  /\ pair.key \in DOMAIN doc.root[pair.sec].kv
EntryOf(doc, pair) == doc.root[pair.sec].kv[pair.key]
\* the value alone is one the method's type accepts: a string for a string
\* method; for an integer method a value GetInt's type switch converts
Accepts(methodName, v) ==
  IF IsIntMethod(methodName) THEN GetIntSwitch(v, GOARCH).ok ELSE v.t = "string"
AcceptedValue(methodName, v) ==
  IF IsIntMethod(methodName) THEN IntValue(GetIntSwitch(v, GOARCH).n) ELSE v

\* C4 as stated: the YAML adapter returns (value, true) for the first
\* section/key pair, sections [aliases, package] outermost and keys [aliases,
\* lower-cased method name] innermost, whose value has the method's type;
\* missing and non-map sections are skipped; (defaultValue, false) when no
\* pair matches.
C4_AsStated ==
  ret.op = "yaml" =>
    LET pairs == ExpectedYAMLPairs(ret.m)
        i == FirstIn({p \in 1..Len(pairs) :
                        /\ HasEntry(yaml, pairs[p])
                        /\ Accepts(ret.m, EntryOf(yaml, pairs[p]))})
    IN  IF i = 0 THEN ~ret.ok /\ ret.v = ret.d
        ELSE ret.ok /\ ret.hit = i
             /\ ret.v = AcceptedValue(ret.m, EntryOf(yaml, pairs[i]))

\* the document without the entry under the pair
WithoutEntry(doc, pair) ==
  [doc EXCEPT !.root[pair.sec].kv =
     [k \in (DOMAIN doc.root[pair.sec].kv) \ {pair.key} |-> doc.root[pair.sec].kv[k]]]
\* a float64 with a fractional part, a number outside the range of int, or a
\* value of another type
NotCoercibleToInt(v) ==
  \/ v.t = "float64" /\ v.n.half
  \/ v.t \in {"float64", "int64"} /\ (NumLess(MaxInt, v.n) \/ NumLess(v.n, MinInt))
  \/ v.t \notin {"int", "int64", "float64"}

\* C5 as stated: in the integer lookup of the YAML adapter a candidate value
\* that cannot be coerced to an integer is only "no match for that key": the
\* result is the one the lookup gives on the document without that entry.
C5_AsStated ==
  (ret.op = "yaml" /\ IsIntMethod(ret.m)) =>
    LET pairs == ExpectedYAMLPairs(ret.m)
        again(doc) == YAMLMethod(NewYAMLConfigParsed(doc), aliases, UniquePackageName,
                                 Methods[2], ret.d, GOARCH)
    IN  \A p \in 1..Len(pairs) :
          (HasEntry(yaml, pairs[p]) /\ NotCoercibleToInt(EntryOf(yaml, pairs[p]))) =>
            /\ again(WithoutEntry(yaml, pairs[p])).ok = ret.ok
            /\ again(WithoutEntry(yaml, pairs[p])).v = ret.v

\* the candidate pairs of the method that have a value in the document
CandidateEntries(methodName) ==
  {p \in 1..Len(ExpectedYAMLPairs(methodName)) :
     HasEntry(yaml, ExpectedYAMLPairs(methodName)[p])}
OnlyCandidate(methodName) ==
  EntryOf(yaml, ExpectedYAMLPairs(methodName)[CHOOSE p \in CandidateEntries(methodName) : TRUE])
OnlyCandidateIsFloat ==
  /\ ret.op = "yaml" /\ IsIntMethod(ret.m)
  /\ Cardinality(CandidateEntries(ret.m)) = 1
  /\ OnlyCandidate(ret.m).t = "float64"
InIntRange(n) == ~NumLess(MaxInt, n) /\ ~NumLess(n, MinInt)

\* C6 as stated: for an integer method whose only candidate document value is
\* a float64, a value without fractional part matches and yields the integer
\* equal to the float; a value with a fractional part yields
\* (defaultValue, false).
C6_AsStated ==
  OnlyCandidateIsFloat =>
    IF ~OnlyCandidate(ret.m).n.half
      THEN ret.ok /\ ret.v = IntValue(OnlyCandidate(ret.m).n)
      ELSE ~ret.ok /\ ret.v = ret.d

\* C6 amended: for an integer method whose only candidate document value is a
\* float64, a value without fractional part that lies within the range of the
\* platform's int matches and yields the integer equal to the float; a value
\* with a fractional part yields (defaultValue, false).
C6_IntegralFloatInRangeMatches ==
  OnlyCandidateIsFloat =>
    /\ (~OnlyCandidate(ret.m).n.half /\ InIntRange(OnlyCandidate(ret.m).n)) =>
         ret.ok /\ ret.v = IntValue(OnlyCandidate(ret.m).n)
    /\ OnlyCandidate(ret.m).n.half => ~ret.ok /\ ret.v = ret.d

\* C6 witness: the only candidate value is 5.0 and the lookup returned (5, true)
C6_Witness ==
  /\ OnlyCandidateIsFloat
  /\ OnlyCandidate(ret.m) = Float64Value(Num(0, 5))
  /\ ret.ok /\ ret.v = IntValue(Num(0, 5))

\* ---- the composite adapter's claim
\* what source i of the composite answers when called alone on YAML object
\* yNow.  A call changes the YAML object only from the zero object to the
\* empty document, and both answer alike, so the object after the call serves.
AnswerOf(i, yNow) ==
  SourceMethod(SourceOf(sources[i], mapKey), environ, yNow, aliases,
               UniquePackageName, IF IsIntMethod(ret.m) THEN Methods[2] ELSE Methods[1],
               ret.d, GOARCH).r
FirstAnswering == FirstIn({j \in 1..Len(sources) : AnswerOf(j, yaml).ok})

\* C1: the composite adapter queries its sources in constructor order and
\* returns (v, true) with the value of the first source that reports
\* exists = true, calling no source after it; when every source reports false,
\* or there is none, it returns (defaultValue, false).
C1_CompositeFirstSourceWins ==
  ret.op = "all" =>
    IF FirstAnswering = 0
      THEN /\ ~ret.ok /\ ret.v = ret.d
           /\ ret.calls = [j \in 1..Len(sources) |-> j]
      ELSE /\ ret.ok /\ ret.v = AnswerOf(FirstAnswering, yaml).v
           /\ ret.calls = [j \in 1..FirstAnswering |-> j]

\* C1 witness: the first source reports false, the second and the third both
\* report true with different values, and the second one's value was returned
\* after two calls.
C1_Witness ==
  /\ ret.op = "all" /\ Len(sources) >= 3
  /\ ~AnswerOf(1, yaml).ok /\ AnswerOf(2, yaml).ok /\ AnswerOf(3, yaml).ok
  /\ AnswerOf(2, yaml).v # AnswerOf(3, yaml).v
  /\ ret.ok /\ ret.v = AnswerOf(2, yaml).v /\ ret.calls = <<1, 2>>

\* ---- registry under concurrency
\* the goroutines at a write of the registry map, and at a read of it
AtRegistryWrite(t) == threads[t].pc = "reg_write"
AtRegistryRead(t) == threads[t].pc \in {"read", "copy"}
IsRegistryLookup(th) == th.op \in {"Get", "NewAllFromYAML"}

\* C7: with Register calls and registry reads (Get<Pkg>, Providers,
\* NewAllFromYAML) of several goroutines interleaved in any way, no read of
\* the registry map overlaps a write of it and no two writes overlap: a
\* goroutine writes the map only while it holds the write lock and reads it
\* only while it holds a read lock.  Every lookup that begins after a Register
\* call for its package has returned finds the package in the map, the copy
\* Providers returns contains every package whose Register call had returned
\* before, and the lookup returns found = true when the provider it read is
\* the one the package's generated init() registers.
C7_RegistryLockedAndRegisteredFound ==
  /\ \A t \in Goroutines :
       AtRegistryWrite(t) =>
         /\ registryMu.w
         /\ \A u \in Goroutines \ {t} : ~AtRegistryWrite(u) /\ ~AtRegistryRead(u)
  /\ \A t \in Goroutines : AtRegistryRead(t) => registryMu.r >= 1 /\ ~registryMu.w
  /\ \A t \in Goroutines :
       LET th == threads[t] IN
       /\ (IsRegistryLookup(th) /\ th.pc \in {"runlock", "invoke", "return"}
           /\ th.pkg \in th.seen) => th.ok
       /\ (IsRegistryLookup(th) /\ th.pc = "return" /\ th.pkg \in th.seen
           /\ th.p = [Package |-> th.pkg, NewAllFromParsed |-> "generated"])
            => th.found
       /\ (th.op = "Providers" /\ th.pc \in {"copied", "return"})
            => th.seen \subseteq DOMAIN th.out

\* a lookup that began after the Register call of its package had returned
\* returns found while another goroutine is inside Register, between its
\* write of the map and its unlock
C7_Witness ==
  \E t, u \in Goroutines :
    /\ t # u
    /\ threads[t].op = "Get" /\ threads[t].pc = "return"
    /\ threads[t].pkg \in threads[t].seen /\ threads[t].found
    /\ threads[u].pc = "reg_unlock" /\ registryMu.w

\* ---- the facade's document
\* two goroutines at accesses of the facade's document of which one is a write
AtDocumentWrite(t) == threads[t].pc = "ensure_write"
AtDocumentAccess(t) == threads[t].pc \in {"ensure", "ensure_write", "get"}
DocumentRace ==
  \E t, u \in Goroutines : t # u /\ AtDocumentWrite(t) /\ AtDocumentAccess(u)

\* C8 as stated: once the facade is constructed, with a document path or
\* without one, no accessor call and no adapter lookup made through it writes
\* the facade's document, and no two goroutines are ever at conflicting
\* accesses of it.
C8_AsStated == [][g'.y = g.y /\ ~DocumentRace']_vars

\* ---- construction of the facade
\* the document paths the sources of the facade supply, and what the file at
\* the path holds
SuppliedPaths ==
  {g.srcs[i].path : i \in {j \in 1..Len(g.srcs) :
      g.srcs[j].type = "GlobalYamlConfig" /\ ~g.srcs[j].nil /\ g.srcs[j].path # ""}}
FileReadable == disk.file.exists
FileParses == disk.file.exists /\ ~disk.file.data.bad
LookupDone == ret.op = "all"

\* C9: in every state from the construction on, whatever accessor and lookup
\* calls have been made since: when the sources supply a document path the file
\* has been read exactly once, and parsed exactly once when the read succeeded;
\* when the read or the parse failed NewGlobalConfig returned the nil facade
\* and an error, otherwise a facade whose document is the parsed file; when no
\* source supplies a non-empty path nothing has been read or parsed and the
\* facade exists, without error, with a document that holds no section.
\* Before the construction nothing has been read.
C9_DocumentReadOnceOrConstructionFails ==
  /\ ~g.made => disk.reads = 0 /\ disk.parses = 0
  /\ (g.made /\ SuppliedPaths # {}) =>
       /\ disk.reads = 1
       /\ disk.parses = IF FileReadable THEN 1 ELSE 0
       /\ ~FileParses => g.nil /\ g.err
       /\ FileParses => /\ ~g.nil /\ ~g.err
                        /\ g.y = [nil |-> FALSE, root |-> disk.file.data.root]
  /\ (g.made /\ SuppliedPaths = {}) =>
       /\ disk.reads = 0 /\ disk.parses = 0
       /\ ~g.nil /\ ~g.err
       /\ g.y.root = <<>>

\* a facade built from a readable document has answered a lookup from it, and
\* the file has been read once
C9_Witness ==
  /\ g.made /\ SuppliedPaths # {} /\ FileParses
  /\ LookupDone /\ ret.ok /\ ret.calls = <<1, 2>>
  /\ disk.reads = 1 /\ disk.parses = 1

\* the facade is built from one environment source and one document source
IsEnvDocPair(srcs) ==
  /\ Len(srcs) = 2
  /\ \E i, j \in 1..2 :
       /\ i # j
       /\ srcs[i].type = "EnvConfig" /\ ~srcs[i].nil
       /\ srcs[j].type = "GlobalYamlConfig" /\ ~srcs[j].nil
Swapped(srcs) == <<srcs[2], srcs[1]>>
\* what a lookup returns on the adapter of package pkg of a facade f
LookupOn(f, pkg, m, d) ==
  LET r == AllMethod(NewAllFromParsed(f.mapKey).sources, environ, f.y, aliases, pkg,
                     m, d, GOARCH)
  IN  [v |-> r.v, ok |-> r.ok, calls |-> r.calls]
\* the environment variable the facade's adapter reads for method m
FacadeEnvText(methodName) ==
  LET k == ExpectedCanonicalEnvKey(methodName)
  IN  environ[IF g.mapKey = "prefix" THEN <<"A","_">> \o k ELSE k]
FacadeEnvUsable(methodName) ==
  /\ FacadeEnvText(methodName) # <<>>
  /\ IsIntMethod(methodName) => IsDecimalText(FacadeEnvText(methodName))

ListedSourceAnswer(i) ==
  IF g.srcs[i].type = "EnvConfig"
    THEN [v |-> EnvTextValue(ret.m, FacadeEnvText(ret.m)), ok |-> FacadeEnvUsable(ret.m)]
    ELSE LET r == YAMLMethod(NewYAMLConfigParsed(g.y), aliases, UniquePackageName,
                             IF IsIntMethod(ret.m) THEN Methods[2] ELSE Methods[1],
                             ret.d, GOARCH)
         IN  [v |-> r.v, ok |-> r.ok]
FirstListedWithValue == FirstIn({i \in 1..Len(g.srcs) : ListedSourceAnswer(i).ok})

\* C11 as stated: the order of the sources passed to NewGlobalConfig matters:
\* a lookup made through a facade built from an environment source and a
\* document source returns the value of the first listed source that has one.
C11_AsStated ==
  (g.made /\ ~g.nil /\ IsEnvDocPair(g.srcs) /\ LookupDone) =>
    (FirstListedWithValue # 0 =>
       ret.ok /\ ret.v = ListedSourceAnswer(FirstListedWithValue).v)

\* ---- what Get<Pkg> reports
\* a goroutine holding what its call of Get<Pkg> returns
GetReturned(t) == threads[t].op = "Get" /\ threads[t].pc = "return"
\* every package in the registry map was put there by a Register call that
\* has returned or is past its write
StoredByRegister ==
  \A pkg \in DOMAIN registry :
    \/ pkg \in returned
    \/ \E t \in Goroutines : /\ threads[t].op = "Register" /\ threads[t].pkg = pkg
                             /\ threads[t].pc = "reg_unlock"

programVars == <<aliases, environ, mapKey, yaml, yamlErr, GOARCH, sources, ret,
                 registry, registryMu, returned, threads, disk, g>>
\* while the generator runs nothing of the generated program does
ProgramAtRest ==
  /\ aliases = NoAliases
  /\ environ = NoEnvironment
  /\ mapKey = "identity"
  /\ yaml = ZeroYAML
  /\ GOARCH = "amd64"
  /\ sources = <<>>
  /\ ret = NoCall
  /\ yamlErr = FALSE
  /\ RuntimeAtRest

\* ---- the keys of the environment adapter
MaxNameLen == 3
\* method names: every name of up to MaxNameLen characters over two
\* upper-case letters, a lower-case letter and a digit, and the method names
\* of the README
NameChars == {"S", "L", "o", "2"}
ReadmeNames ==
  { <<"H","o","s","t">>, <<"S","S","L","M","o","d","e">>,
    <<"U","s","e","r","N","a","m","e">>, <<"P","o","r","t">>,
    <<"R","e","a","d","T","i","m","e","o","u","t">> }
MethodNames ==
  {n \in SeqsUpTo(NameChars, MaxNameLen) : n # <<>> /\ n[1] # "2"} \cup ReadmeNames

\* the template function envKey: getEnvKey(info.UniquePackageName, methodName)
GetEnvKeyCall ==
  /\ gen.pc \in {"start", "snake", "again"}
  /\ gen' = [gen EXCEPT !.pc = "key",
                        !.key = getEnvKey(gen.uniquePackageName, gen.methodName)]
  /\ UNCHANGED programVars

\* toEnvKey(methodName)
ToEnvKeyCall ==
  /\ gen.pc = "start"
  /\ gen' = [gen EXCEPT !.pc = "snake", !.snake = toEnvKey(gen.methodName)]
  /\ UNCHANGED programVars

\* toEnvKey applied to the key toEnvKey produced
ToEnvKeyOfKey ==
  /\ gen.pc = "snake"
  /\ gen' = [gen EXCEPT !.pc = "again", !.again = toEnvKey(gen.snake)]
  /\ UNCHANGED programVars

InitEnvKey ==
  /\ ProgramAtRest
  /\ \E pkg \in PackagePool : \E n \in MethodNames :
       gen = [NoRun EXCEPT !.pc = "start", !.uniquePackageName = pkg, !.methodName = n]

NextEnvKey == GetEnvKeyCall \/ ToEnvKeyCall \/ ToEnvKeyOfKey

SpecEnvKey == InitEnvKey /\ [][NextEnvKey]_vars

\* the places of a method name that get an underscore: upper-case, not the
\* first character, followed by a lower-case character
UnderscoredAt(name) ==
  {i \in 2..(Len(name) - 1) : IsUpperChar(name[i]) /\ IsLowerChar(name[i + 1])}
\* the keys the README gives for package db
ReadmeKeys ==
  (<<"H","o","s","t">> :> <<"D","B","_","H","O","S","T">>)
  @@ (<<"S","S","L","M","o","d","e">> :> <<"D","B","_","S","S","L","_","M","O","D","E">>)
  @@ (<<"U","s","e","r","N","a","m","e">> :> <<"D","B","_","U","S","E","R","_","N","A","M","E">>)
  @@ (<<"P","o","r","t">> :> <<"D","B","_","P","O","R","T">>)
  @@ (<<"R","e","a","d","T","i","m","e","o","u","t">>
        :> <<"D","B","_","R","E","A","D","_","T","I","M","E","O","U","T">>)

C14_ToEnvKeyIdempotent ==
  gen.pc = "again" => gen.again = gen.snake

\* USER_NAME, the key of UserName, is converted to USER_NAME
C14_Witness ==
  /\ gen.pc = "again"
  /\ gen.methodName = <<"U","s","e","r","N","a","m","e">>
  /\ gen.snake = <<"U","S","E","R","_","N","A","M","E">>
  /\ gen.again = gen.snake

\* ---- the unique package name
\* package strings on ASCII text
HasPrefix(str, prefix) ==
  Len(str) >= Len(prefix) /\ SubSeq(str, 1, Len(prefix)) = prefix
TrimPrefix(str, prefix) ==
  IF HasPrefix(str, prefix) THEN SubSeq(str, Len(prefix) + 1, Len(str)) ELSE str
Contains(str, substr) ==
  \E i \in 1..(Len(str) - Len(substr) + 1) : SubSeq(str, i, i + Len(substr) - 1) = substr
\* the non-overlapping occurrences of old, from the left, become new
RECURSIVE ReplaceAll(_, _, _)
ReplaceAll(str, old, new) ==
  IF str = <<>> THEN <<>>
  ELSE IF HasPrefix(str, old)
    THEN new \o ReplaceAll(SubSeq(str, Len(old) + 1, Len(str)), old, new)
    ELSE <<Head(str)>> \o ReplaceAll(Tail(str), old, new)
\* strings.Trim(str, cutset) for a cutset of one character
RECURSIVE TrimLeft(_, _)
TrimLeft(str, c) ==
  IF str # <<>> /\ Head(str) = c THEN TrimLeft(Tail(str), c) ELSE str
RECURSIVE TrimRight(_, _)
TrimRight(str, c) ==
  IF str # <<>> /\ str[Len(str)] = c THEN TrimRight(SubSeq(str, 1, Len(str) - 1), c)
  ELSE str
Trim(str, c) == TrimRight(TrimLeft(str, c), c)
\* strings.Split(str, sep) for a separator of one character
RECURSIVE Split(_, _)
Split(str, sep) ==
  IF \A i \in 1..Len(str) : str[i] # sep THEN <<str>>
  ELSE LET i == CHOOSE j \in 1..Len(str) :
                  str[j] = sep /\ \A k \in 1..(j - 1) : str[k] # sep
       IN  <<SubSeq(str, 1, i - 1)>> \o Split(SubSeq(str, i + 1, Len(str)), sep)

\* filepath.Separator (the generator runs on a Unix system)
Separator == "/"

\* for strings.Contains(path, "__") { path = strings.ReplaceAll(path, "__", "_") }
RECURSIVE CollapseUnderscores(_)
CollapseUnderscores(path) ==
  IF Contains(path, <<"_","_">>)
    THEN CollapseUnderscores(ReplaceAll(path, <<"_","_">>, <<"_">>))
    ELSE path

\* pathToUniqueName(path)
pathToUniqueName(path) ==
  LET p1 == TrimPrefix(TrimPrefix(path, <<".","/">>), <<".">>)
      p2 == ReplaceAll(p1, <<Separator>>, <<"_">>)
      p3 == ReplaceAll(p2, <<"/">>, <<"_">>)
      p4 == CollapseUnderscores(p3)
      p5 == Trim(p4, "_")
  IN  IF p5 = <<>> THEN <<"r","o","o","t">> ELSE p5

MaxPathLen == 3
\* the characters of directory names, and the separator
PathChars == {"a", "_", ".", Separator}
\* what filepath.Rel(moduleRoot, currentDir) returns for a directory at or
\* below the module root: "." or directory names joined by the separator, no
\* name empty, "." or ".."
IsRelPath(path) ==
  \/ path = <<".">>
  \/ \A i \in 1..Len(Split(path, Separator)) :
       Split(path, Separator)[i] \notin {<<>>, <<".">>, <<".",".">>}
RelPaths ==
  {path \in SeqsUpTo(PathChars, MaxPathLen) : path # <<>> /\ IsRelPath(path)}
  \cup {<<"r","o","o","t">>}

\* main, lines 76-91: uniquePackageName = pathToUniqueName(relPath)
PathToUniqueNameCall ==
  /\ gen.pc = "start"
  /\ gen' = [gen EXCEPT !.pc = "named", !.uniquePackageName = pathToUniqueName(gen.relPath)]
  /\ UNCHANGED programVars

\* the generator is run again, in the package at path of the same module
RunInPackage(path) ==
  /\ gen.pc = "named"
  /\ gen.before = <<>>
  /\ gen' = [gen EXCEPT !.pc = "start", !.relPath = path, !.uniquePackageName = <<>>,
                        !.before = << [uniquePackageName |-> gen.uniquePackageName,
                                       relPath |-> gen.relPath] >>]
  /\ UNCHANGED programVars

InitUniqueName ==
  /\ ProgramAtRest
  /\ \E path \in RelPaths : gen = [NoRun EXCEPT !.pc = "start", !.relPath = path]

NextUniqueName == PathToUniqueNameCall \/ \E path \in RelPaths : RunInPackage(path)

SpecUniqueName == InitUniqueName /\ [][NextUniqueName]_vars

\* C15 as stated: the unique package identifier is collision-free: two
\* packages of a module at different relative paths never receive the same
\* identifier.
C15_AsStated ==
  (gen.pc = "named" /\ gen.before # <<>> /\ gen.before[1].relPath # gen.relPath)
    => gen.before[1].uniquePackageName # gen.uniquePackageName

\* ---- the signatures of the interface's methods
\* ast.Expr of a type: an identifier (*ast.Ident) or a slice of a named type
\* (*ast.ArrayType)
Ident(name) == [kind |-> "Ident", Name |-> name]
SliceOf(name) == [kind |-> "ArrayType", Name |-> name]
\* ast.Field of a parameter or result list: Names holds the number of names
\* the field declares (0 when it is unnamed), Type the type they share
Field(names, type) == [Type |-> type, Names |-> names]
\* ast.FuncType
FuncType(params, results) == [Params |-> params, Results |-> results]

\* getReturnTypes: one entry per field of funcType.Results.List, the name of
\* the identifier or "" when the type is no identifier
getReturnTypes(funcType) ==
  [j \in 1..Len(funcType.Results) |->
     IF funcType.Results[j].Type.kind = "Ident" THEN funcType.Results[j].Type.Name
     ELSE ""]

\* getMethodSignature without the test of the second result
getMethodSignature_noBoolTest(funcType) ==
  LET paramType ==
        IF Len(funcType.Params) > 0 /\ funcType.Params[1].Type.kind = "Ident"
          THEN funcType.Params[1].Type.Name ELSE ""
      rets == getReturnTypes(funcType)
  IN  IF Len(rets) # 2
        THEN [err |-> "expected 2 return values (T, bool)", returnType |-> "",
              paramType |-> ""]
      ELSE IF rets[1] # "string" /\ rets[1] # "int"
        THEN [err |-> "unsupported value return type", returnType |-> "",
              paramType |-> ""]
      ELSE [err |-> "", returnType |-> rets[1], paramType |-> paramType]

\* getMethodSignature: err is "" for nil
getMethodSignature(funcType) ==
  LET paramType ==
        IF Len(funcType.Params) > 0 /\ funcType.Params[1].Type.kind = "Ident"
          THEN funcType.Params[1].Type.Name ELSE ""
      rets == getReturnTypes(funcType)
  IN  IF Len(rets) # 2
        THEN [err |-> "expected 2 return values (T, bool)", returnType |-> "",
              paramType |-> ""]
      ELSE IF rets[2] # "bool"
        THEN [err |-> "second return value must be bool", returnType |-> "",
              paramType |-> ""]
      ELSE IF rets[1] # "string" /\ rets[1] # "int"
        THEN [err |-> "unsupported value return type", returnType |-> "",
              paramType |-> ""]
      ELSE [err |-> "", returnType |-> rets[1], paramType |-> paramType]

\* ---- the --alias flags
WhiteSpace == {" ", "\t", "\n", "\r"}
RECURSIVE TrimSpaceLeft(_)
TrimSpaceLeft(str) ==
  IF str # <<>> /\ Head(str) \in WhiteSpace THEN TrimSpaceLeft(Tail(str)) ELSE str
RECURSIVE TrimSpaceRight(_)
TrimSpaceRight(str) ==
  IF str # <<>> /\ str[Len(str)] \in WhiteSpace
    THEN TrimSpaceRight(SubSeq(str, 1, Len(str) - 1))
    ELSE str
TrimSpace(str) == TrimSpaceRight(TrimSpaceLeft(str))
\* strings.SplitN(str, sep, 2)
SplitN2(str, sep) ==
  IF \A j \in 1..Len(str) : str[j] # sep THEN <<str>>
  ELSE LET j == CHOOSE k \in 1..Len(str) :
                  str[k] = sep /\ \A l \in 1..(k - 1) : str[l] # sep
       IN  <<SubSeq(str, 1, j - 1), SubSeq(str, j + 1, Len(str))>>
\* the non-empty strings of a list, in order
RECURSIVE NonEmptyOf(_)
NonEmptyOf(list) ==
  IF list = <<>> THEN <<>>
  ELSE (IF Head(list) # <<>> THEN <<Head(list)>> ELSE <<>>) \o NonEmptyOf(Tail(list))
\* the append keeping a value of the list once only
MapAppend_deduplicates(m, key, values) ==
  LET old == IF key \in DOMAIN m THEN m[key] ELSE <<>>
      all == old \o values
      kept == SelectSeq([j \in 1..Len(all) |-> <<j, all[j]>>],
                        LAMBDA e : \A k \in 1..(e[1] - 1) : all[k] # e[2])
  IN  (key :> [j \in 1..Len(kept) |-> kept[j][2]]) @@ m

\* m[key] = append(m[key], values...)
MapAppend(m, key, values) ==
  IF key \in DOMAIN m THEN [m EXCEPT ![key] = @ \o values] ELSE m @@ (key :> values)

\* the loop body with the values of a directive replacing the list instead
\* of being appended to it
ParseAliasItem_replaces(settings, item) ==
  LET parts == SplitN2(item, "=")
      left == TrimSpace(parts[1])
      right == TrimSpace(parts[2])
      split == Split(right, ",")
      values == IF right # <<>>
                  THEN NonEmptyOf([j \in 1..Len(split) |-> TrimSpace(split[j])])
                  ELSE <<>>
      segs == Split(left, ".")
  IN  IF Len(parts) # 2 THEN settings
      ELSE IF segs[1] = <<"e","n","v">>
        THEN IF Len(segs) = 2 /\ Len(values) > 0
               THEN [settings EXCEPT !.Env = (segs[2] :> values) @@ @]
               ELSE settings
      ELSE IF segs[1] = <<"y","a","m","l">> /\ Len(segs) >= 2
        THEN IF segs[2] = <<"s","e","c","t","i","o","n">>
               THEN [settings EXCEPT !.YAMLSection = values]
             ELSE IF segs[2] = <<"k","e","y">> /\ Len(segs) = 3 /\ Len(values) > 0
               THEN [settings EXCEPT !.YAMLKey = (segs[3] :> values) @@ @]
             ELSE settings
      ELSE settings

\* the body of the loop of parseAliasSettings for one --alias value
ParseAliasItem(settings, item) ==
  LET parts == SplitN2(item, "=")
      left == TrimSpace(parts[1])
      right == TrimSpace(parts[2])
      split == Split(right, ",")
      values == IF right # <<>>
                  THEN NonEmptyOf([j \in 1..Len(split) |-> TrimSpace(split[j])])
                  ELSE <<>>
      segs == Split(left, ".")
  IN  IF Len(parts) # 2 THEN settings
      ELSE IF segs[1] = <<"e","n","v">>
        THEN IF Len(segs) = 2 /\ Len(values) > 0
               THEN [settings EXCEPT !.Env = MapAppend(@, segs[2], values)]
               ELSE settings
      ELSE IF segs[1] = <<"y","a","m","l">> /\ Len(segs) >= 2
        THEN IF segs[2] = <<"s","e","c","t","i","o","n">>
               THEN [settings EXCEPT !.YAMLSection = @ \o values]
             ELSE IF segs[2] = <<"k","e","y">> /\ Len(segs) = 3 /\ Len(values) > 0
               THEN [settings EXCEPT !.YAMLKey = MapAppend(@, segs[3], values)]
             ELSE settings
      ELSE settings

RECURSIVE ParseAliasItems(_, _)
ParseAliasItems(settings, flags) ==
  IF flags = <<>> THEN settings
  ELSE ParseAliasItems(ParseAliasItem(settings, Head(flags)), Tail(flags))

parseAliasSettings(flags) == ParseAliasItems(NoAliases, flags)

\* ---- a run of the generator
\* log.Fatalf: the message, and the exit with status 1
Fatal(msg, method, err) ==
  [gen EXCEPT !.pc = "exited", !.status = 1,
              !.fatal = << [err |-> err, msg |-> msg, method |-> method,
                            interface |-> gen.interfaceName] >>]

\* main, lines 62-96: the unique package name, from --name or from the path
\* of the current directory, and the test of --interface
MainStart ==
  /\ gen.pc = "main"
  /\ LET name == IF gen.packageNameOverride # <<>> THEN gen.packageNameOverride
                 ELSE pathToUniqueName(gen.relPath)
     IN  gen' = IF gen.interfaceName = ""
                  THEN [Fatal("interface name is required", <<>>, "")
                          EXCEPT !.uniquePackageName = name]
                  ELSE [gen EXCEPT !.pc = "parseDir", !.uniquePackageName = name]
  /\ UNCHANGED programVars

\* parseInterface: parser.ParseDir; on its error parseInterface returns the
\* error and main ends the run
ParseDir ==
  /\ gen.pc = "parseDir"
  /\ gen' = IF gen.decl.kind = "syntax error"
              THEN Fatal("failed to parse interface", <<>>, "failed to parse package")
              ELSE [gen EXCEPT !.pc = "inspect", !.i = 1]
  /\ UNCHANGED programVars

\* parseInterface: one turn of the loop over interfaceType.Methods.List.  An
\* entry that is no function type (an embedded interface) is passed over; a
\* signature error ends the run; otherwise the method is appended.
InspectMethod ==
  /\ gen.pc = "inspect"
  /\ gen.i <= Len(gen.decl.List)
  /\ LET method == gen.decl.List[gen.i]
         sig == getMethodSignature(method.Type)
     IN  gen' = IF ~method.isFunc THEN [gen EXCEPT !.i = @ + 1]
                ELSE IF sig.err # ""
                  THEN Fatal("bad method signature", method.Name, sig.err)
                ELSE [gen EXCEPT !.i = @ + 1,
                        !.methods = Append(@, [Name |-> method.Name,
                                               ParamType |-> sig.paramType,
                                               ReturnType |-> sig.returnType])]
  /\ UNCHANGED programVars

\* parseInterface: after the loops; no method found is an error, and main
\* ends the run
ParseInterfaceReturn ==
  /\ gen.pc = "inspect"
  /\ gen.i > Len(gen.decl.List)
  /\ gen' = IF Len(gen.methods) = 0
              THEN Fatal("failed to parse interface", <<>>, "interface not found in package")
              ELSE [gen EXCEPT !.pc = "aliases", !.info = <<gen.methods>>]
  /\ UNCHANGED programVars

\* main, line 105
ParseAliasSettingsCall ==
  /\ gen.pc = "aliases"
  /\ gen' = [gen EXCEPT !.pc = "mkdir", !.aliasSettings = parseAliasSettings(gen.aliasFlags)]
  /\ UNCHANGED programVars

\* generateImplementation: os.MkdirAll(fullOutputPath)
MkdirAll ==
  /\ gen.pc = "mkdir"
  /\ gen' = [gen EXCEPT !.pc = "registry"]
  /\ UNCHANGED programVars

\* generateImplementation: ensureRegistryFile when --registry is given
EnsureRegistryFile ==
  /\ gen.pc = "registry"
  /\ gen' = [gen EXCEPT !.pc = "create",
               !.files["registry.gen.go"] = IF gen.registryEnabled THEN "written" ELSE @]
  /\ UNCHANGED programVars

\* generateImplementation: os.Create(<uniquePackageName>.gen.go)
CreateFile ==
  /\ gen.pc = "create"
  /\ gen' = [gen EXCEPT !.pc = "execute", !.files["%s.gen.go"] = "created"]
  /\ UNCHANGED programVars

\* template function title: strings.Split(s, "_"), strings.Title of every
\* non-empty part, joined.  In a part of letters and digits strings.Title
\* changes the first character only.
title(s) ==
  LET parts == Split(s, "_")
  IN  Flatten([j \in 1..Len(parts) |->
                 IF Len(parts[j]) > 0
                   THEN <<ToUpperChar(parts[j][1])>> \o Tail(parts[j])
                   ELSE <<>>])
\* the interface names of the model, as text
InterfaceText(interfaceName) ==
  IF interfaceName = "Config" THEN <<"C","o","n","f","i","g">> ELSE <<>>
\* the exported functions the template declares: the four constructors
\* New<title pkg><title iface>EnvConfig, ...YAMLConfig, ...Mock, ...All and,
\* with --registry, the accessor Get<title pkg>
ExportedNames(pkg, interfaceName, registryEnabled) ==
  LET new == <<"N","e","w">> \o title(pkg) \o title(InterfaceText(interfaceName))
  IN  << new \o <<"E","n","v","C","o","n","f","i","g">>,
         new \o <<"Y","A","M","L","C","o","n","f","i","g">>,
         new \o <<"M","o","c","k">>,
         new \o <<"A","l","l">> >>
      \o (IF registryEnabled THEN << <<"G","e","t">> \o title(pkg) >> ELSE <<>>)

\* generateImplementation: tmpl.Execute(file, data)
ExecuteTemplate ==
  /\ gen.pc = "execute"
  /\ gen' = [gen EXCEPT !.pc = "example", !.files["%s.gen.go"] = "written",
                        !.symbols = ExportedNames(gen.uniquePackageName,
                                                  gen.interfaceName, gen.registryEnabled)]
  /\ UNCHANGED programVars

\* main, lines 117-128: generateExampleConfig when --example is given, and
\* the end of the run
GenerateExampleConfig ==
  /\ gen.pc = "example"
  /\ gen' = [gen EXCEPT !.pc = "exited",
               !.files["%s_example.yaml"] = IF gen.examplePath # "" THEN "written" ELSE @]
  /\ UNCHANGED programVars

MaxMethods == 2
\* the signatures of the model's interfaces
StringParam == <<Field(1, Ident("string"))>>
TBool(type) == <<Field(0, type), Field(0, Ident("bool"))>>
FuncTypes ==
  { FuncType(StringParam, TBool(Ident("string"))),
    FuncType(<<Field(1, Ident("int"))>>, TBool(Ident("int"))),
    FuncType(<<Field(1, SliceOf("RealmInfo"))>>, TBool(SliceOf("RealmInfo"))),
    FuncType(StringParam, TBool(Ident("int"))),
    FuncType(<<>>, TBool(Ident("string"))),
    FuncType(StringParam, <<Field(0, Ident("string"))>>),
    FuncType(StringParam, <<>>),
    FuncType(StringParam, <<Field(0, Ident("string")), Field(0, Ident("string"))>>),
    FuncType(<<Field(1, Ident("float64"))>>, TBool(Ident("float64"))),
    FuncType(StringParam, TBool(Ident("string")) \o <<Field(0, Ident("bool"))>>),
    FuncType(StringParam, <<Field(2, Ident("string")), Field(1, Ident("bool"))>>) }
\* the entries of interfaceType.Methods.List: methods, and an embedded
\* interface
MethodNameAt(j) ==
  IF j = 1 THEN HostName ELSE IF j = 2 THEN PortName ELSE <<"R","e","a","l","m","s">>
Entries(j) ==
  {[Name |-> MethodNameAt(j), Type |-> ft, isFunc |-> TRUE] : ft \in FuncTypes}
  \cup {[Name |-> <<>>, Type |-> FuncType(<<>>, <<>>), isFunc |-> FALSE]}
\* what the package holds under the interface's name
Decls ==
  {[kind |-> "interface", List |-> l] :
     l \in {q \in SeqsUpTo(UNION {Entries(j) : j \in 1..MaxMethods}, MaxMethods) :
              \A j \in 1..Len(q) : q[j] \in Entries(j)}}
  \cup {[kind |-> k, List |-> <<>>] : k \in {"struct", "absent", "syntax error"}}
\* the command lines
Invocations ==
  { [interfaceName |-> "Config", packageNameOverride |-> <<>>, outputPath |-> "",
     aliasFlags |-> <<>>],
    [interfaceName |-> "Config", packageNameOverride |-> <<"s","v">>,
     outputPath |-> "../gconfig",
     aliasFlags |-> << <<"e","n","v",".","H","o","s","t","=","A","L","T">> >>],
    [interfaceName |-> "", packageNameOverride |-> <<>>, outputPath |-> "",
     aliasFlags |-> <<>>] }
\* the output files before the run: none, or those of an earlier run
FilesBefore ==
  {[f \in DOMAIN NoRun.files |-> st] : st \in {"absent", "old"}}

InitGen ==
  /\ ProgramAtRest
  /\ \E decl \in Decls : \E inv \in Invocations : \E registryEnabled \in BOOLEAN :
     \E examplePath \in {"", "configs"} : \E files \in FilesBefore :
       gen = [NoRun EXCEPT !.pc = "main", !.relPath = UniquePackageName,
                           !.decl = decl, !.interfaceName = inv.interfaceName,
                           !.packageNameOverride = inv.packageNameOverride,
                           !.outputPath = inv.outputPath, !.aliasFlags = inv.aliasFlags,
                           !.registryEnabled = registryEnabled,
                           !.examplePath = examplePath, !.files = files]

NextGen ==
  \/ MainStart
  \/ ParseDir
  \/ InspectMethod
  \/ ParseInterfaceReturn
  \/ ParseAliasSettingsCall
  \/ MkdirAll
  \/ EnsureRegistryFile
  \/ CreateFile
  \/ ExecuteTemplate
  \/ GenerateExampleConfig

SpecGen == InitGen /\ [][NextGen]_vars

\* ---- what the signature extraction accepts
\* the methods the interface declares: the entries of its list that are
\* function types
DeclaredMethods == {j \in 1..Len(gen.decl.List) : gen.decl.List[j].isFunc}
\* a value type the generator is said to support: string, int, or a slice of
\* a named structure type
IsSupportedValueType(type) ==
  \/ type \in {Ident("string"), Ident("int")}
  \/ type.kind = "ArrayType"
\* the result list has not exactly two entries, or its second entry is not
\* bool, or its first entry is no supported value type
HasBadResults(funcType) ==
  \/ Len(funcType.Results) # 2
  \/ funcType.Results[2].Type # Ident("bool")
  \/ ~IsSupportedValueType(funcType.Results[1].Type)
\* the loop of parseInterface is at a declared method
AtMethod == gen.pc = "inspect" /\ gen.i \in DeclaredMethods
\* no list of MethodDescriptors was handed on and no output file was created
\* or written
NothingProduced ==
  /\ gen.info = <<>>
  /\ \A f \in DOMAIN gen.files : gen.files[f] \in {"absent", "old"}

ParamDiffers(funcType) ==
  \/ Len(funcType.Params) # 1
  \/ funcType.Params[1].Type # funcType.Results[1].Type
\* the run is past parseInterface, or over
ParseInterfaceOver == gen.pc \notin {"main", "parseDir", "inspect"}

\* C17 as stated: a method whose single parameter's type differs from its
\* first result type, or that has no parameter, is rejected as a fatal error:
\* every accepted MethodDescriptor has its parameter type equal to its result
\* type, and a run over an interface with such a method ends with a fatal
\* error.
C17_AsStated ==
  /\ \A k \in 1..Len(gen.methods) :
       gen.methods[k].ParamType = gen.methods[k].ReturnType
  /\ (/\ ParseInterfaceOver /\ gen.interfaceName # ""
      /\ \E j \in DeclaredMethods :
           /\ ~HasBadResults(gen.decl.List[j].Type)
           /\ ParamDiffers(gen.decl.List[j].Type))
       => gen.status = 1 /\ gen.fatal # <<>>

\* the parameter and the first result are both the same slice of a named
\* structure type
IsStructSliceMethod(funcType) ==
  /\ ~HasBadResults(funcType) /\ ~ParamDiffers(funcType)
  /\ funcType.Results[1].Type.kind = "ArrayType"

\* C18 as stated: signature extraction accepts a method whose parameter and
\* first result are a slice of a named structure type: no run ends with a
\* signature error for such a method, and the MethodDescriptor of every
\* such method the extraction has passed is of that struct-slice type.
C18_AsStated ==
  /\ (gen.pc = "exited" /\ gen.fatal # <<>> /\ gen.fatal[1].msg = "bad method signature")
       => ~IsStructSliceMethod(gen.decl.List[gen.i].Type)
  /\ \A j \in DeclaredMethods :
       (IsStructSliceMethod(gen.decl.List[j].Type) /\ (j < gen.i \/ ParseInterfaceOver)
        /\ gen.status = 0 /\ gen.pc # "main" /\ gen.pc # "parseDir")
         => \E k \in 1..Len(gen.methods) :
              /\ gen.methods[k].Name = gen.decl.List[j].Name
              /\ gen.methods[k].ReturnType = "[]RealmInfo"

\* the signature is valid: exactly two results, the second bool, the first a
\* supported value type, and one parameter of the first result's type
IsValidSignature(funcType) == ~HasBadResults(funcType) /\ ~ParamDiffers(funcType)
OutputTouched == \E f \in DOMAIN gen.files : gen.files[f] \in {"created", "written"}

\* C19 as stated: all methods of the interface are validated before any output
\* file is created or written: an output file is touched only after the loop
\* over the methods has ended, only when the interface has a method and every
\* method's signature is valid; a run over an interface with an invalid method
\* or without methods ends with a fatal error and no output file touched.
C19_AsStated ==
  /\ OutputTouched =>
       /\ ParseInterfaceOver /\ gen.i > Len(gen.decl.List)
       /\ DeclaredMethods # {}
       /\ \A j \in DeclaredMethods : IsValidSignature(gen.decl.List[j].Type)
  /\ (/\ gen.pc = "exited" /\ gen.interfaceName # ""
      /\ \/ DeclaredMethods = {}
         \/ \E j \in DeclaredMethods : ~IsValidSignature(gen.decl.List[j].Type))
       => gen.status = 1 /\ ~OutputTouched

\* ---- the alias table
MaxDirectives == 2
\* a value as written between the commas of a directive: white space, the
\* value proper, white space
Written(core) == <<<<>>, core, <<>>>>
Padded(core) == <<<<" ">>, core, <<" ">>>>
\* the directives of the model: target is "env", "section" or "key", method
\* the <Method> segment, values the values as written; the last one has no "="
Directives ==
  { [values |-> <<Written(<<"A","L","T">>), Written(<<"S","R","V">>)>>,
     method |-> HostName, target |-> "env"],
    [values |-> <<Padded(<<"S","R","V">>), Written(<<>>), Padded(<<"A","L","T">>)>>,
     method |-> HostName, target |-> "env"],
    [values |-> <<Written(<<"A","L","T">>)>>, method |-> HostName, target |-> "env"],
    [values |-> <<Written(<<"S","R","V">>)>>, method |-> PortName, target |-> "env"],
    [values |-> <<>>, method |-> HostName, target |-> "env"],
    [values |-> <<Written(<<"s","v","c">>), Padded(<<"a","p","p">>)>>, method |-> <<>>,
     target |-> "section"],
    [values |-> <<Padded(<<>>), Written(<<"a","p","p">>)>>, method |-> <<>>,
     target |-> "section"],
    [values |-> <<Written(<<"k","a">>)>>, method |-> HostName, target |-> "key"],
    [values |-> <<Padded(<<"k","b">>), Padded(<<"k","a">>), Written(<<>>)>>,
     method |-> HostName, target |-> "key"],
    [values |-> <<Written(<<"k","b">>)>>, method |-> PortName, target |-> "key"],
    [values |-> <<>>, method |-> HostName, target |-> "no equals sign"] }

RECURSIVE JoinValues(_)
JoinValues(values) ==
  IF values = <<>> THEN <<>>
  ELSE Head(values)[1] \o Head(values)[2] \o Head(values)[3]
       \o (IF Len(values) > 1 THEN <<",">> ELSE <<>>) \o JoinValues(Tail(values))
\* the text of a directive on the command line
AliasFlag(directive) ==
  IF directive.target = "env"
    THEN <<"e","n","v",".">> \o directive.method \o <<"=">> \o JoinValues(directive.values)
  ELSE IF directive.target = "section"
    THEN <<"y","a","m","l",".","s","e","c","t","i","o","n","=">> \o JoinValues(directive.values)
  ELSE IF directive.target = "key"
    THEN <<"y","a","m","l",".","k","e","y",".">> \o directive.method \o <<"=">>
         \o JoinValues(directive.values)
  ELSE <<"e","n","v",".">> \o directive.method

InitAlias ==
  /\ ProgramAtRest
  /\ \E ds \in SeqsUpTo(Directives, MaxDirectives) :
       gen = [NoRun EXCEPT !.pc = "aliases",
                           !.aliasFlags = [j \in 1..Len(ds) |-> AliasFlag(ds[j])]]

NextAlias == ParseAliasSettingsCall

SpecAlias == InitAlias /\ [][NextAlias]_vars

\* the directive a flag of the command line was written from
DirectiveOf(flag) == CHOOSE directive \in Directives : AliasFlag(directive) = flag
\* the values proper of a directive that are not empty, in order
ValuesOf(directive) ==
  NonEmptyOf([j \in 1..Len(directive.values) |-> directive.values[j][2]])
\* what the directives for a target and a method give, in directive order
ExpectedAliases(target, method) ==
  Flatten([j \in 1..Len(gen.aliasFlags) |->
             LET directive == DirectiveOf(gen.aliasFlags[j])
             IN  IF directive.target = target /\ directive.method = method
                   THEN ValuesOf(directive) ELSE <<>>])
AliasMethods == {HostName, PortName}
OnlyDirectives ==
  \A j \in 1..Len(gen.aliasFlags) :
    DirectiveOf(gen.aliasFlags[j]).target \in {"env", "section", "key"}

\* C20: for a list of directives of the three forms, the env alias list of a
\* method holds the values of the 'env.<M>=' directives for it, the section
\* alias list the values of the 'yaml.section=' directives, the key alias
\* list of a method the values of the 'yaml.key.<M>=' directives for it:
\* each in directive order and, within a directive, in the order given, every
\* value trimmed of surrounding white space, empty values dropped; a method
\* without values has no list.
C20_AliasTable ==
  (gen.pc = "mkdir" /\ OnlyDirectives) =>
    /\ DOMAIN gen.aliasSettings.Env =
         {m \in AliasMethods : ExpectedAliases("env", m) # <<>>}
    /\ \A m \in DOMAIN gen.aliasSettings.Env :
         gen.aliasSettings.Env[m] = ExpectedAliases("env", m)
    /\ gen.aliasSettings.YAMLSection = ExpectedAliases("section", <<>>)
    /\ DOMAIN gen.aliasSettings.YAMLKey =
         {m \in AliasMethods : ExpectedAliases("key", m) # <<>>}
    /\ \A m \in DOMAIN gen.aliasSettings.YAMLKey :
         gen.aliasSettings.YAMLKey[m] = ExpectedAliases("key", m)

\* 'env.Host= SRV ,,ALT ' followed by 'env.Host=ALT,SRV' gave Host the env
\* aliases SRV, ALT, ALT, SRV
C20_Witness ==
  /\ gen.pc = "mkdir"
  /\ gen.aliasFlags =
       << <<"e","n","v",".","H","o","s","t","="," ","S","R","V"," ",",",","," ","A","L","T"," ">>,
          <<"e","n","v",".","H","o","s","t","=","A","L","T",",","S","R","V">> >>
  /\ gen.aliasSettings.Env =
       (HostName :> << <<"S","R","V">>, <<"A","L","T">>, <<"A","L","T">>, <<"S","R","V">> >>)

\* ---- the loop of parseAliasSettings, a directive at a time
\* directives that have none of the three forms
MalformedFlags ==
  { <<"e","n","v",".","H","o","s","t",".","P","o","r","t","=","X">>,
    <<"y","a","m","l",".","k","e","y","=","X">>,
    <<"y","a","m","l",".","s","e","c","t","i","o","n",".","e","x","t","r","a","=","X">>,
    <<"y","a","m","l",".","n","a","m","e",".","H","o","s","t","=","X">>,
    <<"j","s","o","n",".","H","o","s","t","=","X">>,
    <<"y","a","m","l","=","X">>,
    <<"e","n","v","=","X">>,
    <<"=","X">>,
    <<"X">> }
\* directives that name a canonical key of package db as an alias: the
\* canonical environment key of a method, the package identifier as a
\* section, the lower-cased method name as a key
CanonicalDirectives ==
  { [values |-> <<Written(getEnvKey(UniquePackageName, HostName))>>, method |-> HostName,
     target |-> "env"],
    [values |-> <<Written(<<"A","L","T">>), Padded(getEnvKey(UniquePackageName, PortName))>>,
     method |-> PortName, target |-> "env"],
    [values |-> <<Written(UniquePackageName)>>, method |-> <<>>, target |-> "section"],
    [values |-> <<Written(toLower(HostName))>>, method |-> HostName, target |-> "key"] }
\* the --alias values of the model: well-formed and malformed ones
AliasFlagPool ==
  {AliasFlag(directive) : directive \in Directives \cup CanonicalDirectives}
  \cup MalformedFlags

\* for _, item := range flags: one turn
ParseAliasLoopTurn ==
  /\ gen.pc = "aliasLoop"
  /\ gen.i <= Len(gen.aliasFlags)
  /\ gen' = [gen EXCEPT !.i = @ + 1,
                        !.aliasSettings = ParseAliasItem(@, gen.aliasFlags[gen.i])]
  /\ UNCHANGED programVars

\* return settings
ParseAliasLoopReturn ==
  /\ gen.pc = "aliasLoop"
  /\ gen.i > Len(gen.aliasFlags)
  /\ gen' = [gen EXCEPT !.pc = "mkdir"]
  /\ UNCHANGED programVars

InitAliasLoop ==
  /\ ProgramAtRest
  /\ \E flags \in SeqsUpTo(AliasFlagPool, MaxDirectives) :
       gen = [NoRun EXCEPT !.pc = "aliasLoop", !.i = 1, !.aliasFlags = flags,
                           !.uniquePackageName = UniquePackageName]

NextAliasLoop == ParseAliasLoopTurn \/ ParseAliasLoopReturn

SpecAliasLoop == InitAliasLoop /\ [][NextAliasLoop]_vars

\* a directive is malformed: it has no '=', or the part before '=' has an
\* unknown first segment, or not the number of segments of its form
\* (env.<Method>, yaml.section, yaml.key.<Method>)
IsMalformed(flag) ==
  \/ \A j \in 1..Len(flag) : flag[j] # "="
  \/ LET segs == Split(TrimSpace(SplitN2(flag, "=")[1]), ".")
     IN  IF segs[1] = <<"e","n","v">> THEN Len(segs) # 2
         ELSE IF segs[1] = <<"y","a","m","l">>
           THEN ~ \/ Len(segs) = 2 /\ segs[2] = <<"s","e","c","t","i","o","n">>
                  \/ Len(segs) = 3 /\ segs[2] = <<"k","e","y">>
         ELSE TRUE
\* the loop is at a directive
AtDirective == gen.pc = "aliasLoop" /\ gen.i <= Len(gen.aliasFlags)

\* C21: a malformed alias directive is passed over: the loop goes on to the
\* next directive and the three alias tables are as they were before it
C21_AsStated ==
  [][(AtDirective /\ IsMalformed(gen.aliasFlags[gen.i])) =>
       /\ gen'.aliasSettings = gen.aliasSettings
       /\ gen'.pc = "aliasLoop" /\ gen'.i = gen.i + 1]_vars

\* ---- the canonical keys and the alias lists
\* how often x occurs in a list
Occurrences(list, x) == Cardinality({j \in 1..Len(list) : list[j] = x})
\* how many of the directives given name the canonical key as an alias for a
\* target and a method
CanonicalGiven(target, method) ==
  Cardinality({j \in 1..Len(gen.aliasFlags) :
                 \E directive \in CanonicalDirectives :
                   /\ directive.target = target /\ directive.method = method
                   /\ gen.aliasFlags[j] = AliasFlag(directive)})
\* parseAliasSettings has returned
AliasTableBuilt == gen.pc = "mkdir"

MutateProviders(t, pkg) ==
  /\ threads[t].pc = "return"
  /\ threads[t].op = "Providers"
  /\ \/ /\ pkg \in DOMAIN threads[t].out
        /\ threads' = [threads EXCEPT ![t].out =
                         [k \in DOMAIN threads[t].out \ {pkg} |-> threads[t].out[k]]]
     \/ \E p \in ProviderPool(pkg) :
          /\ RegistryLoad(threads[t].out, pkg).p # p
          /\ threads' = [threads EXCEPT ![t].out = RegistryStore(@, pkg, p)]
  /\ UNCHANGED <<registry, registryMu, returned, disk, g, ret>>
  /\ UNCHANGED adapterVars

InitRegistry ==
  /\ aliases = NoAliases
  /\ environ = NoEnvironment
  /\ mapKey = "identity"
  /\ yaml = ZeroYAML
  /\ GOARCH = "amd64"
  /\ sources = <<>>
  /\ ret = NoCall
  /\ yamlErr = FALSE
  /\ registry = EmptyRegistry
  /\ registryMu = UnlockedMutex
  /\ returned = {}
  /\ threads = [t \in Goroutines |-> IdleThread]
  /\ gen = NoRun
  /\ LET r == NewGlobalConfig(<<>>, MissingFile) IN
     /\ disk = [file |-> MissingFile, reads |-> r.reads, parses |-> r.parses]
     /\ g = GlobalConfigOf(<<>>, r)

NextRegistry ==
  \E t \in Goroutines :
    \/ \E pkg \in PackagePool : \E p \in ProviderPool(pkg) : RegisterCall(t, pkg, p)
    \/ RegisterStore(t)
    \/ RegisterReturn(t)
    \/ ProvidersCall(t)
    \/ ProvidersCopy(t)
    \/ ProvidersReturn(t)
    \/ \E pkg \in PackagePool : MutateProviders(t, pkg)
    \/ \E pkg \in PackagePool : GetCall(t, pkg)
    \/ \E pkg \in PackagePool : \E data \in YAMLData : NewAllFromYAMLCall(t, pkg, data)
    \/ RegistryRead(t)
    \/ RegistryReadUnlock(t)
    \/ ProviderInvoke(t)
    \/ Return(t)

SpecRegistry == InitRegistry /\ [][NextRegistry]_vars

\* C23 as stated: once Register(pkg, p) has returned, no later step removes
\* pkg from the registry or changes the provider stored for it.
C23_AsStated ==
  [][\A pkg \in returned :
       pkg \in DOMAIN registry' /\ registry'[pkg] = registry[pkg]]_vars

\* C23 (amended): an entry is never removed, and the provider stored for an
\* identifier changes only by the store of a Register call for the same
\* identifier, which puts its own provider there: every identifier whose
\* Register call has returned is in the registry, and Register of another
\* identifier, Providers, NewAllFromYAML, Get<Pkg> and changes of a map
\* Providers returned leave the entry as it is.
C23_NeverRemovedChangedOnlyByRegister ==
  [][/\ returned' \subseteq DOMAIN registry'
     /\ \A pkg \in DOMAIN registry :
          /\ pkg \in DOMAIN registry'
          /\ registry'[pkg] # registry[pkg] =>
               \E t \in Goroutines :
                 /\ threads[t].pc = "reg_write" /\ threads[t].pkg = pkg
                 /\ threads'[t].pc = "reg_unlock"
                 /\ registry'[pkg] = threads[t].p]_vars

\* db is registered; a goroutine has emptied the map Providers returned to
\* it while the other is in Register for another package, and the registry
\* holds db's provider
C23_Witness ==
  \E t, u \in Goroutines :
    /\ UniquePackageName \in returned
    /\ threads[t].op = "Providers" /\ threads[t].pc = "return"
    /\ threads[t].out = EmptyRegistry /\ UniquePackageName \in threads[t].seen
    /\ threads[u].pc = "reg_unlock" /\ threads[u].pkg # UniquePackageName
    /\ registry[UniquePackageName] = GeneratedProvider(UniquePackageName)

\* ====================================================== standalone adapter
\* ---- the example file, and the YAML adapter made from a file path
\* template function defaultValue of generateExampleConfig: "" and 0 as YAML
\* reads them
defaultValue(paramType) ==
  IF paramType = "int" THEN IntValue(Num(0, 0)) ELSE StringValue(<<>>)

\* exampleTemplate: the section {{.UniquePackageName}} with, for every method,
\* the entry {{.Name}}: {{.ParamType | defaultValue}}
exampleTemplate(pkg, methods) ==
  [root |-> (pkg :> MapSection(
               [k \in {methods[j].Name : j \in 1..Len(methods)} |->
                  defaultValue((CHOOSE m \in {methods[j] : j \in 1..Len(methods)} :
                                  m.Name = k).ParamType)])),
   bad |-> FALSE]

\* New<Pkg><Iface>YAMLConfig with err dropped when the parse fails
NewYAMLConfig_dropsParseErr(file, path) ==
  LET rd == ReadFile(file, path) IN
  IF rd.err THEN [y |-> ZeroYAML, err |-> TRUE, reads |-> 1, parses |-> 0]
  ELSE [y |-> ParseYAML(rd.b).y, err |-> FALSE, reads |-> 1, parses |-> 1]

\* New<Pkg><Iface>YAMLConfig(path): os.ReadFile and runtime.ParseYAML; on an
\* error of either the adapter holds &runtime.YAML{} and the error
NewYAMLConfig(file, path) ==
  LET rd == ReadFile(file, path) IN
  IF rd.err THEN [y |-> ZeroYAML, err |-> TRUE, reads |-> 1, parses |-> 0]
  ELSE LET parsed == ParseYAML(rd.b) IN
       IF parsed.err THEN [y |-> ZeroYAML, err |-> TRUE, reads |-> 1, parses |-> 1]
       ELSE [y |-> parsed.y, err |-> FALSE, reads |-> 1, parses |-> 1]

\* the values a user writes into the example file for a method
FillValues(m) ==
  IF m.ParamType = "int" THEN {defaultValue("int"), IntValue(Num(0, 5432))}
  ELSE {defaultValue("string"), StringValue(<<"b","a","r">>)}
\* the example file with the values fill in place of the ones written
Filled(example, fill) ==
  [example EXCEPT !.root =
     [sec \in DOMAIN @ |-> MapSection([k \in DOMAIN @[sec].kv |-> fill[k]])]]
\* the ways of filling the example file of the generated package
Fills(methods) ==
  LET names == {methods[j].Name : j \in 1..Len(methods)}
      byName(k) == CHOOSE m \in {methods[j] : j \in 1..Len(methods)} : m.Name = k
  IN  {f \in [names -> UNION {FillValues(byName(k)) : k \in names}] :
         \A k \in names : f[k] \in FillValues(byName(k))}

\* the example file is there
ExampleWritten == gen.pc = "exited" /\ gen.files["%s_example.yaml"] = "written"

\* the user copies the example file to config.yaml with values filled in
CopyExample(fill) ==
  /\ ExampleWritten
  /\ disk' = [disk EXCEPT !.file =
       FileOf(Filled(exampleTemplate(gen.uniquePackageName, gen.info[1]), fill))]
  /\ disk'.file # disk.file
  /\ UNCHANGED <<registry, registryMu, returned, threads, g, ret>>
  /\ UNCHANGED adapterVars

\* the file at ConfigPath is written by someone, or removed
ChangeFile(file) ==
  /\ gen.pc = "exited"
  /\ file # disk.file
  /\ disk' = [disk EXCEPT !.file = file]
  /\ UNCHANGED <<registry, registryMu, returned, threads, g, ret>>
  /\ UNCHANGED adapterVars

\* the program calls New<Pkg><Iface>YAMLConfig(ConfigPath), once
NewYAMLConfigCall ==
  /\ gen.pc = "exited"
  /\ disk.reads = 0
  /\ LET c == NewYAMLConfig(disk.file, ConfigPath) IN
     /\ yaml' = c.y
     /\ yamlErr' = c.err
     /\ disk' = [disk EXCEPT !.reads = @ + c.reads, !.parses = @ + c.parses]
  /\ UNCHANGED <<aliases, environ, mapKey, GOARCH, sources, ret, gen>>
  /\ UNCHANGED <<registry, registryMu, returned, threads, g>>

\* the adapter is there
Constructed == disk.reads = 1

\* a caller invokes method m of the adapter made
StandaloneCall(m, d) == Constructed /\ YAMLCall(m, d)

\* c.Err()
ErrCall ==
  /\ Constructed
  /\ ret' = [NoCall EXCEPT !.op = "Err", !.ok = yamlErr]
  /\ UNCHANGED <<aliases, environ, mapKey, yaml, yamlErr, GOARCH, sources, gen>>
  /\ UNCHANGED runtimeVars

\* the files at ConfigPath: none, one that does not parse, one with db.host
\* and db.port
StandaloneFiles ==
  {MissingFile, FileOf([root |-> <<>>, bad |-> TRUE]), HostPortFile}

InitStandalone ==
  /\ aliases = NoAliases
  /\ environ = NoEnvironment
  /\ mapKey = "identity"
  /\ yaml = ZeroYAML
  /\ yamlErr = FALSE
  /\ GOARCH \in GoArchs
  /\ sources = <<>>
  /\ ret = NoCall
  /\ registry = EmptyRegistry
  /\ registryMu = UnlockedMutex
  /\ returned = {}
  /\ threads = [t \in Goroutines |-> IdleThread]
  /\ g = NoGlobalConfig
  /\ \E file \in StandaloneFiles : disk = [NoDisk EXCEPT !.file = file]
  /\ \E examplePath \in {"", "configs"} :
       gen = [NoRun EXCEPT !.pc = "example", !.uniquePackageName = UniquePackageName,
                           !.interfaceName = "Config", !.methods = Methods,
                           !.info = <<Methods>>, !.examplePath = examplePath,
                           !.files["%s.gen.go"] = "written"]

NextStandalone ==
  \/ GenerateExampleConfig
  \/ \E fill \in Fills(Methods) : CopyExample(fill)
  \/ \E file \in StandaloneFiles : ChangeFile(file)
  \/ NewYAMLConfigCall
  \/ \E m \in MethodSet : \E d \in DefaultsOf(m) : StandaloneCall(m, d)
  \/ ErrCall

SpecStandalone == InitStandalone /\ [][NextStandalone]_vars

\* the adapter's document is the example file with values filled in
ExampleLoaded ==
  /\ Constructed /\ ExampleWritten /\ ~yaml.nil
  /\ \E fill \in Fills(gen.info[1]) :
       yaml.root = Filled(exampleTemplate(gen.uniquePackageName, gen.info[1]), fill).root
\* the method with a name
MethodNamed(name) == CHOOSE m \in MethodSet : m.Name = name

\* C24 as stated: the example file has the package identifier as its one
\* top-level key and under it, for every method, the key the document
\* adapter looks up last for that method, the lower-cased method name; a
\* lookup on the adapter made from the example file with values filled in
\* returns the value filled in for its method.
C24_AsStated ==
  /\ ExampleWritten =>
       LET example == exampleTemplate(gen.uniquePackageName, gen.info[1]) IN
       /\ DOMAIN example.root = {gen.uniquePackageName}
       /\ DOMAIN example.root[gen.uniquePackageName].kv
            = {YAMLKeys(NoAliases, gen.info[1][j].Name)[1] : j \in 1..Len(gen.info[1])}
  /\ (ExampleLoaded /\ ret.op = "yaml") =>
       /\ ret.ok
       /\ \E k \in DOMAIN yaml.root[gen.uniquePackageName].kv :
            ret.v = yaml.root[gen.uniquePackageName].kv[k]

\* ============================================================ mock adapter
\* a caller invokes method m of the mock adapter
MockCall(m, d) ==
  /\ LET r == MockMethod(m, d)
     IN  ret' = [v |-> r.v, m |-> m.Name, ok |-> r.ok, hit |-> r.hit, calls |-> <<>>,
                 op |-> "mock", d |-> d]
  /\ UNCHANGED <<aliases, environ, mapKey, yaml, yamlErr, GOARCH, sources, gen>>
  /\ UNCHANGED runtimeVars

\* the defaults the callers of the mock pass: the zero value and others
MockDefaults(m) ==
  IF m.ParamType = "int"
    THEN {IntValue(Num(0, 0)), IntValue(Num(0, 8080)), IntValue(Num(0, -1))}
    ELSE {StringValue(<<>>), StringValue(<<"l","h">>), StringValue(<<"-","7">>)}

\* the mock next to the environment adapter and the YAML adapter of the same
\* package, in an environment and over a document that may hold the values
InitMock ==
  /\ aliases = NoAliases
  /\ environ \in FacadeEnvironments
  /\ mapKey = "identity"
  /\ yaml \in {ZeroYAML, ParseYAML(HostPortFile.data).y}
  /\ yamlErr = FALSE
  /\ GOARCH = "amd64"
  /\ sources = <<>>
  /\ ret = NoCall
  /\ RuntimeAtRest
  /\ gen = NoRun

NextMock ==
  \E m \in MethodSet :
    \/ \E d \in MockDefaults(m) : MockCall(m, d)
    \/ \E d \in DefaultsOf(m) : EnvCall(m, d)
    \/ \E d \in DefaultsOf(m) : YAMLCall(m, d)

SpecMock == InitMock /\ [][NextMock]_vars

\* C25: a call of a method of the mock adapter returns the default value it
\* was given and false, whatever the environment and the document hold and
\* whatever was called before.
C25_MockReturnsDefault ==
  ret.op = "mock" => ret.v = ret.d /\ ~ret.ok

\* the mock's Port returned (8080, false) although DB_PORT is set to -7 and
\* the document holds db.port
C25_Witness ==
  /\ ret.op = "mock" /\ ret.m = PortName
  /\ ret.v = IntValue(Num(0, 8080)) /\ ~ret.ok
  /\ environ[getEnvKey(UniquePackageName, PortName)] = <<"-","7">>
  /\ ~yaml.nil /\ toLower(PortName) \in DOMAIN yaml.root[UniquePackageName].kv

\* ====================================================== provider factories
\* ---- a provider whose factory calls the registry itself
\* Register is exported: a program may register a provider whose
\* NewAllFromParsed calls Register for another package, Providers() and the
\* accessor of another package before it returns the adapter
ReentrantProvider(pkg) == [Package |-> pkg, NewAllFromParsed |-> "reentrant"]
OtherPackage(pkg) == CHOOSE q \in PackagePool : q # pkg
\* the goroutine is about to run the factory of such a provider
RunsReentrantFactory(t) ==
  /\ threads[t].pc = "invoke"
  /\ threads[t].ok /\ threads[t].p.NewAllFromParsed = "reentrant"

\* the factory calls Register: registryMu.Lock()
FactoryRegisterLock(t) ==
  /\ RunsReentrantFactory(t)
  /\ CanLock(registryMu)
  /\ registryMu' = Lock(registryMu)
  /\ threads' = [threads EXCEPT ![t].pc = "f_write"]
  /\ UNCHANGED <<registry, returned, disk, g, ret>>
  /\ UNCHANGED adapterVars

\* the factory's Register: registry[pkg] = p, the deferred Unlock, the return
FactoryRegisterStore(t) ==
  /\ threads[t].pc = "f_write"
  /\ LET pkg == OtherPackage(threads[t].pkg) IN
     /\ registry' = RegistryStore(registry, pkg, GeneratedProvider(pkg))
     /\ returned' = returned \cup {pkg}
  /\ registryMu' = Unlock(registryMu)
  /\ threads' = [threads EXCEPT ![t].pc = "f_providers"]
  /\ UNCHANGED <<disk, g, ret>>
  /\ UNCHANGED adapterVars

\* the factory calls Providers(): registryMu.RLock()
FactoryProvidersLock(t) ==
  /\ threads[t].pc = "f_providers"
  /\ CanRLock(registryMu)
  /\ registryMu' = RLock(registryMu)
  /\ threads' = [threads EXCEPT ![t].pc = "f_copy"]
  /\ UNCHANGED <<registry, returned, disk, g, ret>>
  /\ UNCHANGED adapterVars

\* the factory's Providers: the copy, the deferred RUnlock, the return
FactoryProvidersCopy(t) ==
  /\ threads[t].pc = "f_copy"
  /\ registryMu' = RUnlock(registryMu)
  /\ threads' = [threads EXCEPT ![t].pc = "f_get", ![t].out = registry]
  /\ UNCHANGED <<registry, returned, disk, g, ret>>
  /\ UNCHANGED adapterVars

\* the factory calls the accessor of the other package: registryMu.RLock()
FactoryGetLock(t) ==
  /\ threads[t].pc = "f_get"
  /\ CanRLock(registryMu)
  /\ registryMu' = RLock(registryMu)
  /\ threads' = [threads EXCEPT ![t].pc = "f_read"]
  /\ UNCHANGED <<registry, returned, disk, g, ret>>
  /\ UNCHANGED adapterVars

\* the factory's accessor call: the read of the map and registryMu.RUnlock();
\* the provider it read, the one the factory itself registered or one a
\* Register call of the program put there since, returns its adapter
FactoryGetRead(t) ==
  /\ threads[t].pc = "f_read"
  /\ registryMu' = RUnlock(registryMu)
  /\ threads' = [threads EXCEPT ![t].pc = "f_done"]
  /\ UNCHANGED <<registry, returned, disk, g, ret>>
  /\ UNCHANGED adapterVars

\* the factory returns its adapter, and Get<Pkg> or NewAllFromYAML goes on
FactoryReturn(t) ==
  /\ threads[t].pc = "f_done"
  /\ LET th == threads[t]
         res == ProviderResult(th.op, th.pkg, [ok |-> th.ok, p |-> th.p])
     IN  threads' = [threads EXCEPT ![t].pc = "return", ![t].found = res.found,
                       ![t].cfg = IF th.op = "Get" THEN res.cfg ELSE th.cfg]
  /\ UNCHANGED <<registry, registryMu, returned, disk, g, ret>>
  /\ UNCHANGED adapterVars

NextProvider ==
  \E t \in Goroutines :
    \/ \E pkg \in PackagePool :
         \E p \in ProviderPool(pkg) \cup {ReentrantProvider(pkg)} : RegisterCall(t, pkg, p)
    \/ RegisterStore(t)
    \/ RegisterReturn(t)
    \/ \E pkg \in PackagePool : GetCall(t, pkg)
    \/ \E pkg \in PackagePool : \E data \in YAMLData : NewAllFromYAMLCall(t, pkg, data)
    \/ RegistryRead(t)
    \/ RegistryReadUnlock(t)
    \/ ~RunsReentrantFactory(t) /\ ProviderInvoke(t)
    \/ FactoryRegisterLock(t)
    \/ FactoryRegisterStore(t)
    \/ FactoryProvidersLock(t)
    \/ FactoryProvidersCopy(t)
    \/ FactoryGetLock(t)
    \/ FactoryGetRead(t)
    \/ FactoryReturn(t)
    \/ Return(t)

SpecProvider == InitRegistry /\ [][NextProvider]_vars

\* the goroutines holding a read lock, and those holding the write lock
ReadHolders ==
  {u \in Goroutines : threads[u].pc \in {"read", "runlock", "copy", "copied",
                                         "f_copy", "f_read"}}
WriteHolders == {u \in Goroutines : threads[u].pc \in {"reg_write", "reg_unlock", "f_write"}}
\* the goroutine is between the release of the read lock and the return of
\* the factory
InProvider(t) ==
  threads[t].pc \in {"invoke", "f_write", "f_providers", "f_copy", "f_get", "f_read",
                     "f_done"}
\* the factory waits for the write lock, or for a read lock
WaitsForLock(t) == RunsReentrantFactory(t)
WaitsForRLock(t) == threads[t].pc \in {"f_providers", "f_get"}

\* C26: the lock is held by the goroutines inside Register, Providers and
\* the reads of the map, and by no other: a goroutine in Get<Pkg> or
\* NewAllFromYAML has released its read lock when the factory runs.  A
\* factory that calls Register, Providers or an accessor waits only while
\* another goroutine holds the lock, never for itself, and while a factory
\* runs and no other goroutine is in a call of the registry, Register can take
\* the lock.
C26_NoLockAcrossProvider ==
  /\ registryMu.r = Cardinality(ReadHolders)
  /\ registryMu.w <=> WriteHolders # {}
  /\ \A t \in Goroutines :
       /\ (WaitsForLock(t) /\ ~CanLock(registryMu)) =>
            \E u \in Goroutines \ {t} : u \in ReadHolders \cup WriteHolders
       /\ (WaitsForRLock(t) /\ ~CanRLock(registryMu)) =>
            \E u \in Goroutines \ {t} : u \in WriteHolders
       /\ (InProvider(t) /\ t \notin ReadHolders \cup WriteHolders
           /\ \A u \in Goroutines \ {t} : u \notin ReadHolders \cup WriteHolders)
            => CanLock(registryMu)

\* a goroutine in Get<Pkg> runs a factory that is about to call Providers,
\* having registered the other package, while the other goroutine is inside
\* Register with the write lock
C26_Witness ==
  \E t, u \in Goroutines :
    /\ t # u
    /\ threads[t].op = "Get" /\ threads[t].pc = "f_providers"
    /\ OtherPackage(threads[t].pkg) \in returned
    /\ threads[u].pc = "reg_write" /\ registryMu.w

\* ============================================================ module root
\* ---- findModuleRoot and the lines of main that call it
MaxDepth == 2
MaxGoMods == 2
\* a Dir that returns its argument
Dir_same(path) == path

\* filepath.Dir for a clean path: all but the last element, without the
\* trailing separator; "/" for the root and "." for a path without separator
Dir(path) ==
  LET seps == {k \in 1..Len(path) : path[k] = Separator}
      last == IF seps = {} THEN 0
              ELSE CHOOSE k \in seps : \A l \in seps : l <= k
      head == SubSeq(path, 1, last)
  IN  IF head = <<>> THEN <<".">>
      ELSE IF TrimRight(head, Separator) = <<>> THEN <<Separator>>
      ELSE TrimRight(head, Separator)

\* filepath.Rel(basepath, targpath) for a base at or above the target
Rel(basepath, targpath) ==
  IF basepath = targpath THEN <<".">>
  ELSE IF basepath \in {<<Separator>>, <<".">>}
    THEN TrimLeft(targpath, Separator)
  ELSE SubSeq(targpath, Len(basepath) + 2, Len(targpath))

\* findModuleRoot: one turn of the loop.  os.Stat(dir/go.mod) without error
\* returns dir, and main goes on to filepath.Rel; a directory that is its own
\* parent returns the error, and main ends the run; else dir = parent
FindModuleRootTurn ==
  /\ gen.pc = "findModuleRoot"
  /\ gen' = IF gen.dir \in gen.goMods
              THEN [gen EXCEPT !.pc = "rel", !.moduleRoot = gen.dir]
            ELSE IF Dir(gen.dir) = gen.dir
              THEN Fatal("failed to find module root", <<>>, "go.mod not found")
            ELSE [gen EXCEPT !.dir = Dir(gen.dir)]
  /\ UNCHANGED programVars

\* main, lines 82-89: filepath.Rel(moduleRoot, currentDir) and
\* pathToUniqueName
RelativePath ==
  /\ gen.pc = "rel"
  /\ gen' = [gen EXCEPT !.pc = "main", !.relPath = Rel(gen.moduleRoot, gen.currentDir)]
  /\ UNCHANGED programVars

\* the path of a list of directory names: below the root, or relative
PathOf(names, abs) ==
  IF names = <<>> THEN (IF abs THEN <<Separator>> ELSE <<".">>)
  ELSE LET joined == Flatten([j \in 1..Len(names) |-> <<Separator, names[j]>>])
       IN  IF abs THEN joined ELSE Tail(joined)
DirNames == {"a", "b"}
\* the directories of the model: absolute ones, as os.Getwd returns them, and
\* relative ones
Directories(abs) == {PathOf(names, abs) : names \in SeqsUpTo(DirNames, MaxDepth)}

InitModuleRoot ==
  /\ ProgramAtRest
  /\ \E abs \in BOOLEAN :
     \E startDir \in Directories(abs) :
     \E mods \in {{q[j] : j \in 1..Len(q)} : q \in SeqsUpTo(Directories(abs), MaxGoMods)} :
       gen = [NoRun EXCEPT !.pc = "findModuleRoot", !.interfaceName = "Config",
                           !.currentDir = startDir, !.dir = startDir, !.goMods = mods]

NextModuleRoot == FindModuleRootTurn \/ RelativePath

SpecModuleRoot ==
  InitModuleRoot /\ [][NextModuleRoot]_vars /\ WF_vars(NextModuleRoot)

\* the directory names of a path, from the top
NamesOf(path) ==
  SelectSeq(Split(path, Separator), LAMBDA n : n # <<>> /\ n # <<".">>)
\* a is p or a directory above p
AtOrAbove(a, p) ==
  /\ (a[1] = Separator) <=> (p[1] = Separator)
  /\ Len(NamesOf(a)) <= Len(NamesOf(p))
  /\ NamesOf(a) = SubSeq(NamesOf(p), 1, Len(NamesOf(a)))
\* the directories from the start directory up to d, d left out
VisitedBefore(d) ==
  {v \in Directories(gen.currentDir[1] = Separator) :
     AtOrAbove(v, gen.currentDir) /\ AtOrAbove(d, v) /\ v # d}

\* C27: findModuleRoot ends for every start directory.  While it runs, dir
\* is the start directory or one above it, and no directory from the start
\* directory up to it has a go.mod; when it returns a directory, that is the
\* nearest one at or above the start directory with a go.mod; when it returns
\* the error, no directory at or above the start directory has one, the last
\* one looked at is its own parent, and the run has ended with status 1.
C27_FindModuleRootTerminates ==
  /\ [](/\ gen.pc = "findModuleRoot" =>
             /\ AtOrAbove(gen.dir, gen.currentDir)
             /\ VisitedBefore(gen.dir) \cap gen.goMods = {}
        /\ gen.pc \in {"rel", "main"} =>
             /\ gen.moduleRoot \in gen.goMods
             /\ AtOrAbove(gen.moduleRoot, gen.currentDir)
             /\ VisitedBefore(gen.moduleRoot) \cap gen.goMods = {}
        /\ gen.pc = "exited" =>
             /\ gen.status = 1 /\ gen.fatal # <<>>
             /\ NamesOf(gen.dir) = <<>>
             /\ \A v \in gen.goMods : ~AtOrAbove(v, gen.currentDir))
  /\ <>(gen.pc # "findModuleRoot")

\* from /a/b the search passed /a/b, which has no go.mod, and returned /a
\* although the root has a go.mod too
C27_Witness ==
  /\ gen.pc = "rel"
  /\ gen.currentDir = <<"/","a","/","b">>
  /\ gen.moduleRoot = <<"/","a">>
  /\ gen.goMods = {<<"/">>, <<"/","a">>}

\* ========================================================= exported names
\* ---- two packages generated into one output package
MaxIdentLen == 3
IdentChars == {"a", "b", "B", "_"}
\* unique package identifiers: what pathToUniqueName returns, or --name gives
Identifiers ==
  {n \in SeqsUpTo(IdentChars, MaxIdentLen) :
     /\ n # <<>> /\ n[1] # "_" /\ n[Len(n)] # "_"
     /\ \A j \in 1..(Len(n) - 1) : ~(n[j] = "_" /\ n[j + 1] = "_")}

\* the generator is run again for another package, with the same --output
RunForPackage(name) ==
  /\ gen.pc = "exited"
  /\ gen.before = <<>>
  /\ gen' = [gen EXCEPT !.pc = "execute", !.uniquePackageName = name, !.symbols = <<>>,
                        !.before = << [uniquePackageName |-> gen.uniquePackageName,
                                       symbols |-> gen.symbols] >>]
  /\ UNCHANGED programVars

InitExported ==
  /\ ProgramAtRest
  /\ \E name \in Identifiers : \E registryEnabled \in BOOLEAN :
       gen = [NoRun EXCEPT !.pc = "execute", !.uniquePackageName = name,
                           !.interfaceName = "Config", !.methods = Methods,
                           !.info = <<Methods>>, !.outputPath = "../gconfig",
                           !.registryEnabled = registryEnabled,
                           !.files["%s.gen.go"] = "created"]

NextExported ==
  \/ ExecuteTemplate
  \/ GenerateExampleConfig
  \/ \E name \in Identifiers : RunForPackage(name)

SpecExported == InitExported /\ [][NextExported]_vars

\* the names of a list
NamesIn(list) == {list[j] : j \in 1..Len(list)}

\* C28 as stated: the exported names generated for two different unique
\* package identifiers are different: no constructor and no accessor of the
\* one has the name of one of the other.
C28_AsStated ==
  (/\ gen.pc = "exited" /\ gen.before # <<>>
   /\ gen.before[1].uniquePackageName # gen.uniquePackageName)
    => NamesIn(gen.before[1].symbols) \cap NamesIn(gen.symbols) = {}


\* --------------------------------------------- the constructor with a path
\* os.ReadFile or runtime.ParseYAML returns an error for the file
CannotReadOrParse(file) == ~file.exists \/ file.data.bad
\* the step is the call of New<Pkg><Iface>YAMLConfig(ConfigPath)
IsConstruction == disk.reads = 0 /\ disk'.reads = 1

\* C29: New<Pkg><Iface>YAMLConfig(path) always returns an adapter.  When the
\* file cannot be read or parsed the adapter holds an empty document, Err()
\* returns the error and every lookup returns (defaultValue, false); when the
\* file is read and parsed Err() returns nil and the adapter holds the file's
\* document.  The file is read and parsed at construction only: no lookup,
\* Err() call or later change of the file reads or parses it again, or
\* changes the error or the document.
C29_ConstructorNeverFailsReadsOnce ==
  /\ [][IsConstruction =>
          /\ yamlErr' = CannotReadOrParse(disk.file)
          /\ yaml' = IF CannotReadOrParse(disk.file) THEN ZeroYAML
                     ELSE [nil |-> FALSE, root |-> disk.file.data.root]
          /\ disk'.parses = IF disk.file.exists THEN 1 ELSE 0]_vars
  /\ [][Constructed =>
          /\ yamlErr' = yamlErr
          /\ yaml'.root = yaml.root
          /\ disk'.reads = 1
          /\ disk'.parses = disk.parses]_vars
  /\ []((Constructed /\ ret.op = "Err") => ret.ok = yamlErr)
  /\ []((Constructed /\ yamlErr) => yaml.root = <<>>)
  /\ []((Constructed /\ yamlErr /\ ret.op = "yaml") => (~ret.ok /\ ret.v = ret.d))

\* the file did not parse when the adapter was made and holds db.host and
\* db.port now; a lookup with a default other than the zero value returned it
C29_Witness ==
  /\ Constructed /\ yamlErr /\ disk.parses = 1
  /\ disk.file = HostPortFile
  /\ ret.op = "yaml" /\ ~ret.ok /\ ret.v = ret.d
  /\ ret.d \notin {defaultValue("int"), defaultValue("string")}


\* ------------------------------------ several sources of the same kind
MaxSameKind == 2
\* a path with no file behind it
OtherPath == "other.yaml"
\* &EnvConfig{}: an environment source whose key mapper is nil
ZeroEnvConfig == [mapKey |-> "nil", nil |-> FALSE, type |-> "EnvConfig", path |-> ""]
SameKindPool ==
  { NewEnvConfig("nil"), NewEnvConfig("prefix"), ZeroEnvConfig, NilSource("EnvConfig"),
    NewGlobalYamlConfig(""), NewGlobalYamlConfig(ConfigPath),
    NewGlobalYamlConfig(OtherPath), NilSource("GlobalYamlConfig"), OtherSource }
\* the environments that set nothing or the host of the package, under its
\* canonical key or under the prefixed one
HostEnvironments ==
  {e \in FacadeEnvironments :
     \A k \in EnvNames :
       e[k] # <<>> => k \in {getEnvKey(UniquePackageName, HostName),
                             KeyPrefix \o getEnvKey(UniquePackageName, HostName)}}

InitSources ==
  /\ aliases = NoAliases
  /\ environ \in HostEnvironments
  /\ mapKey = "identity"
  /\ yaml = ZeroYAML
  /\ GOARCH = "amd64"
  /\ sources = <<>>
  /\ ret = NoCall
  /\ yamlErr = FALSE
  /\ registry = [pkg \in PackagePool |-> GeneratedProvider(pkg)]
  /\ registryMu = UnlockedMutex
  /\ returned = PackagePool
  /\ threads = [t \in Goroutines |-> IdleThread]
  /\ gen = NoRun
  /\ disk = [NoDisk EXCEPT !.file = HostPortFile]
  /\ g = NoGlobalConfig

NextSources ==
  \/ \E srcs \in SeqsUpTo(SameKindPool, MaxSameKind) : Construct(srcs)
  \/ GetCall(MainGoroutine, UniquePackageName)
  \/ RegistryRead(MainGoroutine)
  \/ RegistryReadUnlock(MainGoroutine)
  \/ ProviderInvoke(MainGoroutine)
  \/ Return(MainGoroutine)
  \/ LookupCall(MainGoroutine, MethodNamed(HostName), StringValue(<<"d">>))
  \/ LookupEnsure(MainGoroutine)
  \/ LookupEnsureWrite(MainGoroutine)
  \/ LookupGet(MainGoroutine)

SpecSources == InitSources /\ [][NextSources]_vars

\* the positions of the sources that count: non-nil environment sources with
\* a non-nil key mapper, non-nil document sources with a non-empty path
CountingEnvSources(srcs) ==
  {i \in 1..Len(srcs) :
     srcs[i].type = "EnvConfig" /\ ~srcs[i].nil /\ srcs[i].mapKey # "nil"}
CountingDocSources(srcs) ==
  {i \in 1..Len(srcs) :
     srcs[i].type = "GlobalYamlConfig" /\ ~srcs[i].nil /\ srcs[i].path # ""}
LastIn(S) == CHOOSE i \in S : \A j \in S : j <= i
ExpectedGlobalMapKey(srcs) ==
  IF CountingEnvSources(srcs) = {} THEN "identity"
  ELSE srcs[LastIn(CountingEnvSources(srcs))].mapKey
ExpectedGlobalPath(srcs) ==
  IF CountingDocSources(srcs) = {} THEN ""
  ELSE srcs[LastIn(CountingDocSources(srcs))].path

\* C30: after NewGlobalConfig(sources...) with any number of sources of a
\* kind: the path read is the path of the last non-nil document source with a
\* non-empty path (no read when there is none, whatever empty-path, nil or
\* other sources come later); when a facade is returned its key mapper is the
\* mapper of the last non-nil environment source with a non-nil mapper, the
\* identity when there is none; and a lookup through the facade reads the
\* environment under that mapper.
C30_LastCountingSourceWins ==
  g.made =>
    LET mk == ExpectedGlobalMapKey(g.srcs)
        path == ExpectedGlobalPath(g.srcs)
        text == environ[IF mk = "prefix"
                          THEN <<"A","_">> \o ExpectedCanonicalEnvKey(HostName)
                          ELSE ExpectedCanonicalEnvKey(HostName)]
    IN  /\ path = "" => (disk.reads = 0 /\ ~g.err /\ ~g.nil /\ ensure(g.y).root = <<>>)
        /\ path = ConfigPath =>
             (disk.reads = 1 /\ ~g.err /\ ~g.nil /\ g.y.root = disk.file.data.root)
        /\ path = OtherPath => (disk.reads = 1 /\ g.err /\ g.nil)
        /\ ~g.nil => g.mapKey = mk
        /\ (~g.nil /\ LookupDone /\ text # <<>>) =>
             (ret.ok /\ ret.calls = <<1>> /\ ret.v = StringValue(text))

\* the sources were (an environment source with the prefix mapper, one with
\* the identity mapper): the facade has the identity; a lookup read DB_HOST
C30_Witness ==
  /\ g.made /\ ~g.nil
  /\ g.srcs = <<NewEnvConfig("prefix"), NewEnvConfig("nil")>>
  /\ g.mapKey = "identity"
  /\ LookupDone /\ ret.ok /\ ret.v = StringValue(environ[ExpectedCanonicalEnvKey(HostName)])
====
